---------------------------- MODULE Spec2Model ----------------------------
(***************************************************************************)
(* A model of the application cache of django.apps (src/django/apps):      *)
(* AppCache (cache.py), App / AppBase (base.py) and AppOptions             *)
(* (options.py), together with the get_app of the older AppCache kept in   *)
(* src/django/core/apps.py.                                                *)
(*                                                                         *)
(* Conventions                                                             *)
(*  - a dotted path 'a.b.c' is the sequence <<"a","b","c">>, so that       *)
(*    rsplit('.', 1) and split('.')[-1] are computed as the code does;     *)
(*  - None (no module, no model) is the empty sequence <<>>;               *)
(*  - the values of the options verbose_name, db_prefix and models_path    *)
(*    are all written as paths (the db_prefix 'x' is <<"x">>);             *)
(*  - the shared state of the cache is the module's variables; the         *)
(*    methods are operators on a record of them (W), because load_app,     *)
(*    _populate and the import of a models module call each other          *)
(*    re-entrantly; an action is one whole call;                           *)
(*  - exc is the exception a call ends with ("" when it returns).          *)
(***************************************************************************)
EXTENDS Integers, Sequences, FiniteSets, TLC

VARIABLES
    loaded_apps,        \* cache.py:22   list of app instances
    app_models,         \* cache.py:25   SortedDict label -> SortedDict name -> model
    loaded,             \* cache.py:28
    handled,            \* cache.py:29
    postponed,          \* cache.py:30
    nesting_level,      \* cache.py:31
    get_models_cache,   \* cache.py:32   _get_models_cache
    write_lock,         \* cache.py:43   threading.RLock: owner and count
    class_meta,         \* base.py:32    the _meta of every declared App class
    sys_modules,        \* sys.modules, restricted to the models modules
    INSTALLED_APPS,     \* settings.INSTALLED_APPS
    sent,               \* the signals sent since the last reset
    registered,         \* the models register_models stored since then
    ret,                \* the last call: what was called, what it answered
    pristine,           \* nothing has been called yet on cache and modules
    pc,                 \* per thread: its place in _populate
    cursor,             \* per thread: its position in the loop of _populate
    finalized,          \* the threads that ran the finalization of _populate
    observed            \* per thread: what it sees once its _populate is over

vars == << loaded_apps, app_models, loaded, handled, postponed, nesting_level,
           get_models_cache, write_lock, class_meta, sys_modules,
           INSTALLED_APPS, sent, registered, ret, pristine, pc, cursor,
           finalized, observed >>

cache_vars == << loaded_apps, app_models, loaded, handled, postponed,
                 nesting_level, get_models_cache, class_meta, sys_modules,
                 sent, registered >>

thread_vars == << write_lock, pc, cursor, finalized, observed >>

-----------------------------------------------------------------------------
(* Bounds of the model *)

\* direct load_app calls are made while len(handled) is below this
MaxHandled == 2
\* the threads that call _populate concurrently
NumThreads == 2

-----------------------------------------------------------------------------
(* Sequences and insertion-ordered dictionaries *)

None == << >>

Last(s) == s[Len(s)]

Front(s) == SubSeq(s, 1, Len(s) - 1)

Range(s) == { s[i] : i \in 1..Len(s) }

\* SortedDict: a sequence of [key, val], keys distinct, in insertion order
DictHas(d, k) == \E i \in 1..Len(d) : d[i].key = k

DictGet(d, k, default) ==
    IF DictHas(d, k)
    THEN d[CHOOSE i \in 1..Len(d) : d[i].key = k].val
    ELSE default

\* d[k] = v: an existing key keeps its place, a new key goes last
DictSet(d, k, v) ==
    IF DictHas(d, k)
    THEN [ i \in 1..Len(d) |-> IF d[i].key = k THEN [key |-> k, val |-> v] ELSE d[i] ]
    ELSE Append(d, [key |-> k, val |-> v])

RECURSIVE DictUpdateFrom(_, _, _)
DictUpdateFrom(d, other, i) ==
    IF i > Len(other) THEN d
    ELSE DictUpdateFrom(DictSet(d, other[i].key, other[i].val), other, i + 1)

\* SortedDict.update(other)
DictUpdate(d, other) == DictUpdateFrom(d, other, 1)

DictValues(d) == [ i \in 1..Len(d) |-> d[i].val ]

-----------------------------------------------------------------------------
(* The modules, classes and models the cache is run on: the fixtures of    *)
(* src/tests/appcachetests and the modules its tests name.                 *)

\* every importable module
ExistingModules ==
    { <<"model_app">>, <<"model_app", "app">>, <<"model_app", "models">>,
      <<"model_app", "othermodels">>, <<"model_app", "yetanother">>,
      <<"nomodel_app">>, <<"nomodel_app", "app">>,
      <<"anothermodel_app">>, <<"anothermodel_app", "models">>,
      <<"app_a">>, <<"app_a", "models">>,
      <<"app_b">>, <<"app_b", "models">>,
      <<"broken_app">>, <<"broken_app", "models">>,
      <<"loader_app">>, <<"loader_app", "models">>,
      <<"nested_app">>, <<"nested_app", "models">>,
      <<"custom_app">>, <<"custom_app", "custommodels">>, <<"custom_app", "app">>,
      <<"memo_app">>, <<"memo_app", "models">>,
      <<"contrib">>, <<"contrib", "admin">> }

\* the modules that define models
ModelsModules ==
    { <<"model_app", "models">>, <<"model_app", "othermodels">>,
      <<"anothermodel_app", "models">>, <<"app_a", "models">>,
      <<"app_b", "models">>, <<"broken_app", "models">>,
      <<"loader_app", "models">>, <<"nested_app", "models">>,
      <<"custom_app", "custommodels">>, <<"memo_app", "models">> }

\* django.utils.module_loading.module_has_submodule
module_has_submodule(package, name) == Append(package, name) \in ExistingModules

\* the classes of the app modules: name -> bases, the Meta the class body
\* declares (has_meta, its own attributes, the Metas it inherits from).
\* custom_app.app declares  class CustomApp(MyOverrideApp): pass
ClassDecl ==
    ( <<"model_app", "app", "MyApp">> :>
        [ is_app |-> TRUE, bases |-> << >>, has_meta |-> TRUE,
          meta_attrs |-> << [key |-> "models_path", val |-> <<"model_app", "othermodels">>] >>,
          meta_bases |-> << >> ] )
 @@ ( <<"model_app", "app", "MyOtherApp">> :>
        [ is_app |-> TRUE, bases |-> << <<"model_app", "app", "MyApp">> >>,
          has_meta |-> TRUE,
          meta_attrs |-> << [key |-> "db_prefix", val |-> <<"nomodel_app">>] >>,
          meta_bases |-> << <<"model_app", "app", "MyApp">> >> ] )
 @@ ( <<"model_app", "app", "MyOverrideApp">> :>
        [ is_app |-> TRUE, bases |-> << <<"model_app", "app", "MyOtherApp">> >>,
          has_meta |-> FALSE, meta_attrs |-> << >>, meta_bases |-> << >> ] )
 @@ ( <<"model_app", "app", "MySecondApp">> :>
        [ is_app |-> TRUE, bases |-> << <<"model_app", "app", "MyOtherApp">> >>,
          has_meta |-> TRUE,
          meta_attrs |-> << [key |-> "models_path", val |-> <<"model_app", "models">>] >>,
          meta_bases |-> << <<"model_app", "app", "MyOtherApp">> >> ] )
 @@ ( <<"model_app", "app", "YetAnotherApp">> :>
        [ is_app |-> TRUE, bases |-> << >>, has_meta |-> TRUE,
          meta_attrs |-> << [key |-> "models_path", val |-> <<"model_app", "yetanother">>] >>,
          meta_bases |-> << >> ] )
 @@ ( <<"model_app", "app", "MyThirdApp">> :>
        [ is_app |-> TRUE,
          bases |-> << <<"model_app", "app", "YetAnotherApp">>,
                       <<"model_app", "app", "MySecondApp">> >>,
          has_meta |-> TRUE, meta_attrs |-> << >>,
          meta_bases |-> << <<"model_app", "app", "YetAnotherApp">>,
                            <<"model_app", "app", "MySecondApp">> >> ] )
 @@ ( <<"custom_app", "app", "CustomApp">> :>
        [ is_app |-> TRUE, bases |-> << <<"model_app", "app", "MyOverrideApp">> >>,
          has_meta |-> FALSE, meta_attrs |-> << >>, meta_bases |-> << >> ] )
 @@ ( <<"nomodel_app", "app", "MyApp">> :>
        [ is_app |-> TRUE, bases |-> << >>, has_meta |-> FALSE,
          meta_attrs |-> << >>, meta_bases |-> << >> ] )
 @@ ( <<"nomodel_app", "app", "ObjectApp">> :>
        [ is_app |-> FALSE, bases |-> << >>, has_meta |-> FALSE,
          meta_attrs |-> << >>, meta_bases |-> << >> ] )

ModuleAttributes == DOMAIN ClassDecl

\* the attributes of the modules that are not classes: model_app/app.py:1
\* binds the name apps to the module django.apps
NonClassAttributes == { <<"model_app", "app", "apps">> }

DeclaredApps == { c \in DOMAIN ClassDecl : ClassDecl[c].is_app }

\* a model class: _meta.object_name, __module__, _meta.auto_created, _deferred
Model(object_name, module, auto_created) ==
    [ object_name |-> object_name, module |-> module,
      auto_created |-> auto_created, deferred |-> FALSE ]

\* the class made for a query that defers fields of model: a subclass in
\* the module of model, with _deferred = True (cache.py:306)
Deferred(model) ==
    [ model EXCEPT !.object_name = "Person_Deferred_first_name", !.deferred = TRUE ]

\* str.lower on the object names in use
Lower(s) ==
    CASE s = "Person" -> "person"
      [] s = "PERSON" -> "person"
      [] s = "Person_Deferred_first_name" -> "person_deferred_first_name"
      [] s = "Team" -> "team"
      [] s = "Job" -> "job"
      [] s = "Person_jobs" -> "person_jobs"
      [] s = "Contact" -> "contact"
      [] s = "X" -> "x"
      [] s = "Y" -> "y"
      [] s = "L" -> "l"
      [] s = "N" -> "n"
      [] OTHER -> s

\* the app_label a model registers itself under: the package of its module
ModelLabel(model) == model.module[Len(model.module) - 1]

\* the statements a models module runs when it is imported
StDef(object_name, module, auto) ==
    [ op |-> "class", model |-> Model(object_name, module, auto),
      mod |-> None, name |-> "", app |-> None ]

StFrom(mod, name) ==
    [ op |-> "from", model |-> Model("", None, FALSE),
      mod |-> mod, name |-> name, app |-> None ]

\* a call of cache._populate() among the statements of a module
StPopulate ==
    [ op |-> "_populate", model |-> Model("", None, FALSE),
      mod |-> None, name |-> "", app |-> None ]

\* a call of cache.get_models() among the statements of a module
StGetModels ==
    [ op |-> "get_models", model |-> Model("", None, FALSE),
      mod |-> None, name |-> "", app |-> None ]

StLoad(app) ==
    [ op |-> "load_app", model |-> Model("", None, FALSE),
      mod |-> None, name |-> "", app |-> app ]

StFail ==
    [ op |-> "import missing", model |-> Model("", None, FALSE),
      mod |-> None, name |-> "", app |-> None ]

ModuleBody(m) ==
    CASE m = <<"model_app", "models">> ->
            << StDef("Person", m, FALSE) >>
      [] m = <<"model_app", "othermodels">> ->
            << StDef("Team", m, FALSE) >>
      [] m = <<"anothermodel_app", "models">> ->
            << StDef("Job", m, FALSE), StDef("Person_jobs", m, TRUE),
               StDef("Person", m, FALSE), StDef("Contact", m, FALSE) >>
      \* app_a.models:  from app_b.models import Y ; class X
      [] m = <<"app_a", "models">> ->
            << StFrom(<<"app_b", "models">>, "Y"), StDef("X", m, FALSE) >>
      \* app_b.models:  class Y ; from app_a.models import X
      [] m = <<"app_b", "models">> ->
            << StDef("Y", m, FALSE), StFrom(<<"app_a", "models">>, "X") >>
      \* broken_app.models imports a module that does not exist
      [] m = <<"broken_app", "models">> ->
            << StFail >>
      \* loader_app.models:  load_app('nomodel_app') ; class L
      [] m = <<"loader_app", "models">> ->
            << StLoad(<<"nomodel_app">>), StDef("L", m, FALSE) >>
      \* custom_app.custommodels, the models module of an application whose
      \* models_path names it, imports a module that does not exist
      [] m = <<"custom_app", "custommodels">> ->
            << StFail >>
      \* nested_app.models:  cache._populate() ; class N
      [] m = <<"nested_app", "models">> ->
            << StPopulate, StDef("N", m, FALSE) >>
      \* memo_app.models:  cache.get_models()
      [] m = <<"memo_app", "models">> ->
            << StGetModels >>
      [] OTHER -> << >>

-----------------------------------------------------------------------------
(* AppOptions (options.py) and the creation of an App class (base.py) *)

\* options.py:8
DEFAULT_NAMES == << "verbose_name", "db_prefix", "models_path" >>

\* django.utils.text.get_verbose_name on a label without capitals
get_verbose_name(label) == << label >>

\* hasattr(meta, attr) / getattr(meta, attr) for the Meta declared by class c:
\* its own attributes first, then those of the Metas it inherits from
RECURSIVE MetaHasAttr(_, _)
MetaHasAttr(c, attr) ==
    \/ DictHas(ClassDecl[c].meta_attrs, attr)
    \/ \E i \in 1..Len(ClassDecl[c].meta_bases) :
          MetaHasAttr(ClassDecl[c].meta_bases[i], attr)

RECURSIVE MetaGetAttr(_, _)
MetaGetAttr(c, attr) ==
    IF DictHas(ClassDecl[c].meta_attrs, attr)
    THEN DictGet(ClassDecl[c].meta_attrs, attr, None)
    ELSE LET b == ClassDecl[c].meta_bases
             i == CHOOSE j \in 1..Len(b) :
                    /\ MetaHasAttr(b[j], attr)
                    /\ \A k \in 1..(j - 1) : ~MetaHasAttr(b[k], attr)
         IN  MetaGetAttr(b[i], attr)

\* The attribute Meta of class c once AppBase.__new__ is done with it
\* (base.py:34 sets it to the Meta of the class body, None when the body
\* declares none): the class whose Meta it is, or None.
ClassMetaAttribute(c) == IF ClassDecl[c].has_meta THEN c ELSE None

\* base.py:21-25: the meta handed to AppOptions
MetaOfNewClass(c) ==
    IF ClassDecl[c].has_meta THEN c
    ELSE IF ClassDecl[c].bases = << >> THEN None
    ELSE ClassMetaAttribute(ClassDecl[c].bases[1])

\* options.py:18-50  AppOptions.contribute_to_class, for the app `name` and
\* the meta of class `meta` (None: no meta)
contribute_to_class(name, meta) ==
    LET label == Last(name)
        opt(attr, default) ==
            IF meta # None /\ MetaHasAttr(meta, attr)
            THEN MetaGetAttr(meta, attr) ELSE default
    IN  [ name |-> name,
          label |-> label,
          models_module |-> None,
          models |-> << >>,
          db_prefix |-> opt("db_prefix", << label >>),
          models_path |-> opt("models_path", Append(name, "models")),
          verbose_name |-> opt("verbose_name", get_verbose_name(label)) ]

\* base.py:26-32: the app name of a declared class is its module's package
\* ('model_app.app.MyApp' is defined in 'model_app.app': 'model_app')
DeclaredAppName(c) == Front(Front(c))

\* base.py:13-38  the _meta of declared class c when its module is imported
AppBase_new(c) == contribute_to_class(DeclaredAppName(c), MetaOfNewClass(c))

\* the classes with a _meta along the mro of declared class c (cache.py:93)
RECURSIVE Mro(_)
RECURSIVE MroOfBases(_)
Mro(c) == << c >> \o MroOfBases(ClassDecl[c].bases)

\* the mros of the bases in turn, a class that several of them reach kept
\* where the last of them has it
MroOfBases(bases) ==
    IF bases = << >> THEN << >>
    ELSE LET rest == MroOfBases(Tail(bases))
         IN  SelectSeq(Mro(Head(bases)), LAMBDA b : b \notin Range(rest)) \o rest

-----------------------------------------------------------------------------
(* The state the methods work on *)

NoErr == [ what |-> "", app1 |-> 0, app2 |-> 0, prefix |-> None ]

\* the variables as one record, with the outcome of the call under way:
\* exc, the exception raised ("": none), err, what it says, val, the value
\* returned
W == [ loaded_apps |-> loaded_apps, app_models |-> app_models,
       loaded |-> loaded, handled |-> handled, postponed |-> postponed,
       nesting_level |-> nesting_level,
       get_models_cache |-> get_models_cache, class_meta |-> class_meta,
       sys_modules |-> sys_modules, INSTALLED_APPS |-> INSTALLED_APPS,
       sent |-> sent, registered |-> registered, core |-> FALSE,
       held |-> write_lock.count, raising |-> {},
       exc |-> "", err |-> NoErr, val |-> None ]

Raise(w, exc, err) == [ w EXCEPT !.exc = exc, !.err = err ]

Error(what) == [ NoErr EXCEPT !.what = what ]

Absent == [ state |-> "absent", names |-> {} ]

\* cache.py:15-33  _initialize
initialize ==
    [ loaded_apps |-> << >>, app_models |-> << >>, loaded |-> FALSE,
      handled |-> << >>, postponed |-> << >>, nesting_level |-> 0,
      get_models_cache |-> {} ]

\* the _meta of an instance: that of its class (base.py:32, options.py:19).
\* A class made by App.from_name is made anew for every instance, so its
\* _meta is kept with the instance; a declared class keeps one _meta for all
\* its instances, in class_meta.
EmptyOptions ==
    [ name |-> None, label |-> "", models_module |-> None, models |-> << >>,
      db_prefix |-> None, models_path |-> None, verbose_name |-> None ]

MetaOf(w, app) == IF app.synth THEN app.meta ELSE w.class_meta[app.cls]

Meta(w, i) == MetaOf(w, w.loaded_apps[i])

WithMeta(w, i, m) ==
    IF w.loaded_apps[i].synth
    THEN [ w EXCEPT !.loaded_apps[i].meta = m ]
    ELSE [ w EXCEPT !.class_meta[w.loaded_apps[i].cls] = m ]

\* cache.py:208-214  find_app: the first instance with the label, 0 for None
find_app(w, app_label) ==
    IF \E i \in 1..Len(w.loaded_apps) : Meta(w, i).label = app_label
    THEN CHOOSE i \in 1..Len(w.loaded_apps) :
            /\ Meta(w, i).label = app_label
            /\ \A j \in 1..(i - 1) : Meta(w, j).label # app_label
    ELSE 0

\* a class found or made by get_app_class
AppClass(synth, cls) == [ exc |-> "", err |-> NoErr, synth |-> synth, cls |-> cls ]

NoClass(exc, what) == [ exc |-> exc, err |-> Error(what), synth |-> FALSE, cls |-> None ]

\* base.py:63-67  App.from_name: a new class with _name = name; making it
\* runs AppOptions.contribute_to_class, which imports the module `name`
\* (options.py:23)
from_name(name) ==
    IF name \in ExistingModules
    THEN AppClass(TRUE, name)
    ELSE NoClass("ImportError", "No module named")

\* cache.py:118-152  get_app_class
get_app_class(app_name) ==
    IF Len(app_name) = 1 THEN from_name(app_name)
    ELSE LET app_path == Front(app_name)
             app_attr == Last(app_name)
         IN  IF app_path \notin ExistingModules
             THEN NoClass("ImproperlyConfigured", "Could not import app")
             ELSE IF ~module_has_submodule(app_path, app_attr)
             THEN IF app_name \notin ModuleAttributes \cup NonClassAttributes
                  THEN NoClass("ImproperlyConfigured", "Could not find app")
                  \* cache.py:147  issubclass of what is not a class
                  ELSE IF app_name \in NonClassAttributes
                  THEN NoClass("TypeError", "issubclass() arg 1 must be a class")
                  ELSE IF ~ClassDecl[app_name].is_app
                  THEN NoClass("ImproperlyConfigured", "must be a subclass of App")
                  ELSE AppClass(FALSE, app_name)
             ELSE from_name(app_name)

\* base.py:53-58  App.__init__(**options) on the instance at index i
\* an __init__ that drops its options
App_init_dropped(w, i, options, k) == w

RECURSIVE App_init(_, _, _, _)
App_init(w, i, options, k) ==
    IF k > Len(options) THEN w
    ELSE LET key == options[k].key
             value == options[k].val
             w1 == IF key \in Range(DEFAULT_NAMES)
                   THEN WithMeta(w, i,
                          CASE key = "db_prefix" -> [ Meta(w, i) EXCEPT !.db_prefix = value ]
                            [] key = "models_path" -> [ Meta(w, i) EXCEPT !.models_path = value ]
                            [] OTHER -> [ Meta(w, i) EXCEPT !.verbose_name = value ])
                   ELSE [ w EXCEPT !.loaded_apps[i].attrs = DictSet(@, key, value) ]
         IN  App_init(w1, i, options, k + 1)

\* Signal.send; kept with the signal: what app_cache_ready() (cache.py:231)
\* answers a receiver of it
\* the delivery of a signal to its receivers, made inside the send: the
\* exception of a receiver connected to the signal leaves the send
Deliver(w, signal) ==
    IF signal \in w.raising /\ w.exc = ""
    THEN Raise(w, "ReceiverError", Error("raised by a receiver"))
    ELSE w

Send(w, signal, arg) ==
    Deliver([ w EXCEPT !.sent = Append(@, [ sig |-> signal, arg |-> arg, ready |-> w.loaded,
                                            apps |-> Len(w.loaded_apps),
                                            level |-> w.nesting_level, held |-> w.held ]) ],
            signal)

\* a list of instances that takes the new one at its head
PrependApp(apps, app) == << app >> \o apps

\* cache.py:177  self.loaded_apps.append(app)
AppendApp(apps, app) == Append(apps, app)

\* an instance created and appended without a signal
Instantiate_silent(w, app_class, app_kwargs) ==
    IF app_class.exc # "" THEN Raise(w, app_class.exc, app_class.err)
    ELSE App_init([ w EXCEPT !.loaded_apps =
                      AppendApp(@, [ synth |-> app_class.synth,
                                     cls |-> app_class.cls,
                                     meta |-> IF app_class.synth
                                              THEN contribute_to_class(app_class.cls, None)
                                              ELSE EmptyOptions,
                                     attrs |-> << >> ]) ],
                  Len(w.loaded_apps) + 1, app_kwargs, 1)

\* cache.py:175-179  the instance of app_class is made, appended, and
\* app_loaded is sent
Instantiate(w, app_class, app_kwargs) ==
    IF app_class.exc # "" THEN Raise(w, app_class.exc, app_class.err)
    ELSE Send(App_init([ w EXCEPT !.loaded_apps =
                           AppendApp(@, [ synth |-> app_class.synth,
                                          cls |-> app_class.cls,
                                          meta |-> IF app_class.synth
                                                   THEN contribute_to_class(app_class.cls, None)
                                                   ELSE EmptyOptions,
                                          attrs |-> << >> ]) ],
                       Len(w.loaded_apps) + 1, app_kwargs, 1),
              "app_loaded", << Len(w.loaded_apps) + 1 >>)

\* cache.py:174-179
CreateApp(w, app_name, app_kwargs) ==
    Instantiate(w, get_app_class(app_name), app_kwargs)

\* cache.py:329-351  register_models(app_label, model)
register_models(w, app_label, model) ==
    LET app == find_app(w, app_label)
        model_name == Lower(model.object_name)
        model_dict == DictGet(w.app_models, app_label, << >>)
        known == DictHas(model_dict, model_name)
        other == DictGet(model_dict, model_name, model)
        cleared == [ w EXCEPT !.get_models_cache = {} ]
    IN  IF known /\ ( \/ w.sys_modules[model.module].state = "absent"
                      \/ w.sys_modules[other.module].state = "absent" )
        THEN Raise(w, "KeyError", Error("sys.modules"))
        ELSE IF known /\ model.module = other.module
        THEN cleared
        ELSE LET w1 == IF app # 0
                       THEN WithMeta(cleared, app,
                              [ Meta(cleared, app) EXCEPT
                                  !.models = DictSet(@, model_name, model) ])
                       ELSE cleared
             IN  [ w1 EXCEPT !.app_models =
                     DictSet(@, app_label, DictSet(model_dict, model_name, model)),
                             !.registered =
                     Append(@, [ label |-> app_label, model |-> model ]) ]

\* core/apps.py:392-395  the dictionary the name is looked up in: built from
\* the list of bound models once the cache is ready and the instance exists
\* (a later model of one name wins in dict()), the unbound tier otherwise
CoreModelDict(w, app, app_label) ==
    IF w.loaded /\ app # 0
    THEN LET bound == Meta(w, app).models
         IN  [ n \in 1..Len(bound) |->
                 [ key |-> Lower(bound[n].val.object_name), val |-> bound[n].val ] ]
    ELSE DictGet(w.app_models, app_label, << >>)

\* core/apps.py:409  app._meta.models.append(model): the bound models of
\* core/apps.py are a list (core/apps.py:32), an entry is added at its end
ListAppend(models, model) ==
    Append(models, [ key |-> Lower(model.object_name), val |-> model ])

\* core/apps.py:384-412  register_models for one model
core_register_models(w, app_label, model) ==
    LET app == find_app(w, app_label)
        model_name == Lower(model.object_name)
        model_dict == CoreModelDict(w, app, app_label)
        known == \E n \in 1..Len(model_dict) : model_dict[n].key = model_name
        last == CHOOSE n \in 1..Len(model_dict) :
                   /\ model_dict[n].key = model_name
                   /\ \A k \in (n + 1)..Len(model_dict) : model_dict[k].key # model_name
        other == model_dict[last].val
        cleared == [ w EXCEPT !.get_models_cache = {} ]
    IN  IF known /\ ( \/ w.sys_modules[model.module].state = "absent"
                      \/ w.sys_modules[other.module].state = "absent" )
        THEN Raise(w, "KeyError", Error("sys.modules"))
        ELSE IF known /\ model.module = other.module
        THEN cleared
        ELSE IF w.loaded /\ app # 0
        THEN [ WithMeta(cleared, app,
                        [ Meta(cleared, app) EXCEPT !.models = ListAppend(@, model) ])
                 EXCEPT !.registered = Append(@, [ label |-> app_label, model |-> model ]) ]
        ELSE [ cleared EXCEPT
                 !.app_models = DictSet(@, app_label,
                                        DictSet(DictGet(w.app_models, app_label, << >>),
                                                model_name, model)),
                 !.registered = Append(@, [ label |-> app_label, model |-> model ]) ]

-----------------------------------------------------------------------------
(* Importing a models module, load_app and _populate *)

RECURSIVE import_module(_, _)
RECURSIVE ExecBody(_, _, _)
RECURSIVE load_app(_, _, _, _)
RECURSIVE populate(_)
RECURSIVE get_models(_, _)

\* the end of an import: a module whose body raised leaves sys.modules
Imported(w, m) ==
    IF w.exc # ""
    THEN [ w EXCEPT !.sys_modules[m] = Absent ]
    ELSE [ w EXCEPT !.sys_modules[m].state = "imported" ]

\* the import under way at cache.py:183: a module in sys.modules is returned
\* as it is, complete or not; one that is not is entered in sys.modules and
\* its body run
import_module(w, m) ==
    IF m \notin ExistingModules
    THEN Raise(w, "ImportError", Error("No module named"))
    ELSE IF m \notin ModelsModules THEN w
    ELSE IF w.sys_modules[m].state # "absent" THEN w
    ELSE Imported(ExecBody([ w EXCEPT !.sys_modules[m] =
                               [ state |-> "importing", names |-> {} ] ], m, 1), m)

\* from st.mod import st.name, once st.mod has been imported
FromImported(w, st) ==
    IF w.exc # "" THEN w
    ELSE IF st.name \notin w.sys_modules[st.mod].names
    THEN Raise(w, "ImportError", Error("cannot import name"))
    ELSE w

\* one statement of module m
ExecStatement(w, m, st) ==
    CASE st.op = "class" ->
           \* the class statement of a model registers it
           \* (by the register_models of the cache the run is made with)
           [ (IF w.core THEN core_register_models(w, ModelLabel(st.model), st.model)
                        ELSE register_models(w, ModelLabel(st.model), st.model))
               EXCEPT !.sys_modules[m].names = @ \cup { st.model.object_name } ]
      [] st.op = "from" -> FromImported(import_module(w, st.mod), st)
      [] st.op = "load_app" -> load_app(w, st.app, << >>, FALSE)
      [] st.op = "_populate" -> populate(w)
      [] st.op = "get_models" ->
           get_models(w, [ app_mod |-> None, include_auto_created |-> FALSE,
                           include_deferred |-> FALSE, only_installed |-> TRUE ])
      [] OTHER -> Raise(w, "ImportError", Error("No module named"))

\* the statements of module m from the i-th on
ExecBody(w, m, i) ==
    IF i > Len(ModuleBody(m)) \/ w.exc # "" THEN w
    ELSE ExecBody(ExecStatement(w, m, ModuleBody(m)[i]), m, i + 1)

\* a load_app that never postpones: the ImportError goes on
NeverPostpones(w, app_name, app_kwargs, can_postpone) == w

\* cache.py:197-202  the ImportError of a models module that exists
LoadApp_postpones(w, app_name, app_kwargs, can_postpone) ==
    IF can_postpone
    THEN [ w EXCEPT !.postponed = Append(@, [ name |-> app_name, kwargs |-> app_kwargs ]),
                    !.exc = "", !.err = NoErr, !.val = None ]
    ELSE w

\* cache.py:182-206  load_app once import_module(models) has ended in w,
\* for the instance at index app
LoadApp_imported(w, app, models, app_name, app_kwargs, can_postpone) ==
    IF w.exc = "ImportError"
    THEN IF ~module_has_submodule(Meta(w, app).name, "models")
         THEN [ w EXCEPT !.nesting_level = @ - 1,
                         !.exc = "", !.err = NoErr, !.val = None ]
         ELSE LoadApp_postpones([ w EXCEPT !.nesting_level = @ - 1 ],
                                app_name, app_kwargs, can_postpone)
    ELSE IF w.exc # "" THEN w
    ELSE WithMeta([ w EXCEPT !.nesting_level = @ - 1, !.val = models ], app,
                  [ Meta(w, app) EXCEPT !.models_module = models ])

\* cache.py:181-184  load_app once the instance at index app is there
LoadApp_found(w, app, app_name, app_kwargs, can_postpone) ==
    IF w.exc # "" THEN w
    ELSE LoadApp_imported(import_module(w, Meta(w, app).models_path), app,
                          Meta(w, app).models_path,
                          app_name, app_kwargs, can_postpone)

\* cache.py:173-179  load_app once handled and nesting_level are updated
LoadApp_entered(w, app_name, app_kwargs, can_postpone) ==
    IF find_app(w, Last(app_name)) # 0
    THEN LoadApp_found(w, find_app(w, Last(app_name)),
                       app_name, app_kwargs, can_postpone)
    ELSE LoadApp_found(CreateApp(w, app_name, app_kwargs), Len(w.loaded_apps) + 1,
                       app_name, app_kwargs, can_postpone)

\* cache.py:154-206  load_app
load_app(w, app_name, app_kwargs, can_postpone) ==
    LoadApp_entered([ w EXCEPT !.handled = Append(@, app_name),
                               !.nesting_level = @ + 1,
                               !.val = None ],
                    app_name, app_kwargs, can_postpone)

\* cache.py:80-87  one turn of the loop over settings.INSTALLED_APPS
PopulateTurn(w, i) ==
    LET app_name == w.INSTALLED_APPS[i].name
        app_kwargs == w.INSTALLED_APPS[i].kwargs
    IN  IF app_name \in Range(w.handled) THEN w
        ELSE load_app(w, app_name, app_kwargs, TRUE)

RECURSIVE PopulateLoop(_, _)
PopulateLoop(w, i) ==
    IF i > Len(w.INSTALLED_APPS) \/ w.exc # "" THEN w
    ELSE PopulateLoop(PopulateTurn(w, i), i + 1)

\* a finalization that tries no postponed application again
RetryPostponed_skipped(w, i) == w

\* cache.py:89-90  the postponed apps are tried again
RECURSIVE RetryPostponed(_, _)
RetryPostponed(w, i) ==
    IF i > Len(w.postponed) \/ w.exc # "" THEN w
    ELSE RetryPostponed(load_app(w, w.postponed[i].name, w.postponed[i].kwargs, FALSE),
                        i + 1)

\* cache.py:93-101  the models of the classes along the mro of the instance
\* at index i, the farthest parent first, are put into its _meta.models
RECURSIVE AssignParents(_, _, _, _)
AssignParents(w, i, parents, k) ==
    IF k < 1 THEN w
    ELSE LET parent_label == parents[k]
             parent_models == DictGet(w.app_models, parent_label, << >>)
             w1 == WithMeta(w, i,
                     [ Meta(w, i) EXCEPT !.models = DictUpdate(@, parent_models) ])
         IN  AssignParents(w1, i, parents, k - 1)

\* the labels of the classes with a _meta along the mro of the instance
ParentLabels(w, app) ==
    IF app.synth THEN << MetaOf(w, app).label >>
    ELSE LET mro == Mro(app.cls)
         IN  [ k \in 1..Len(mro) |-> w.class_meta[mro[k]].label ]

\* a finalization that binds no model
AssignModels_none(w, i) == w

RECURSIVE AssignModels(_, _)
AssignModels(w, i) ==
    IF i > Len(w.loaded_apps) THEN w
    ELSE LET parents == ParentLabels(w, w.loaded_apps[i])
         IN  AssignModels(AssignParents(w, i, parents, Len(parents)), i + 1)

\* cache.py:105-111  the first pair of instances with one db_prefix, in the
\* order of the two loops; << >> when there is none
SamePrefixPairs(w) ==
    { p \in (1..Len(w.loaded_apps)) \X (1..Len(w.loaded_apps)) :
        /\ p[1] # p[2]
        /\ Meta(w, p[1]).db_prefix = Meta(w, p[2]).db_prefix }

FirstSamePrefixPair(w) ==
    CHOOSE p \in SamePrefixPairs(w) :
        \A q \in SamePrefixPairs(w) :
            \/ p[1] < q[1]
            \/ (p[1] = q[1] /\ p[2] <= q[2])

\* a check of the prefixes that lets every list of instances pass
NoPrefixCheck(w) == w

CheckPrefixes(w) ==
    IF SamePrefixPairs(w) = {} THEN w
    ELSE LET p == FirstSamePrefixPair(w)
         IN  Raise(w, "ImproperlyConfigured",
                   [ what |-> "have the same db_prefix", app1 |-> p[1],
                     app2 |-> p[2], prefix |-> Meta(w, p[1]).db_prefix ])

\* cache.py:112-114  loaded = True and post_apps_loaded, unless the check
\* of the prefixes raised
SetLoaded(w) ==
    IF w.exc # "" THEN w
    ELSE Send([ w EXCEPT !.loaded = TRUE ], "post_apps_loaded",
              [ i \in 1..Len(w.loaded_apps) |-> i ])

\* cache.py:91-114  the finalization once the postponed apps were tried
Finalize_retried(w) ==
    IF w.exc # "" THEN w
    ELSE SetLoaded(CheckPrefixes(AssignModels(w, 1)))

\* cache.py:89-114  what _populate does once the loop is over and
\* nesting_level is 0
Finalize(w) == Finalize_retried(RetryPostponed(w, 1))

\* a _populate that finishes whatever nesting_level is
Populate_unnested(w) ==
    IF w.exc # "" THEN w
    ELSE Finalize(w)

\* cache.py:88  if not self.nesting_level
Populate_looped(w) ==
    IF w.exc # "" THEN w
    ELSE IF w.nesting_level # 0 THEN w
    ELSE Finalize(w)

\* cache.py:68-116  _populate, as one thread runs it from start to end
\* cache.py:76  write_lock.acquire(): the lock is an RLock (cache.py:43), the
\* thread that holds it acquires it once more
Acquired(w) == [ w EXCEPT !.held = @ + 1 ]

\* cache.py:115-116  finally: write_lock.release()
Released(w) == [ w EXCEPT !.held = @ - 1 ]

\* a _populate that finalizes at any nesting level
populate_nested(w) ==
    IF w.loaded THEN w
    ELSE Released(Populate_unnested(PopulateLoop(Acquired(w), 1)))

populate(w) ==
    IF w.loaded THEN w
    ELSE Released(Populate_looped(PopulateLoop(Acquired(w), 1)))

\* core/apps.py:168-169  for model in models.itervalues(): every model of one
\* label is appended to the list of bound models of instance app
RECURSIVE CoreAppendModels(_, _, _, _)
CoreAppendModels(w, app, models, k) ==
    IF k > Len(models) THEN w
    ELSE CoreAppendModels(
           WithMeta(w, app, [ Meta(w, app) EXCEPT !.models = ListAppend(@, models[k].val) ]),
           app, models, k + 1)

\* core/apps.py:164-169  the labels of unbound_models from the n-th on: a label
\* without an instance is passed over
RECURSIVE CoreAssignModels(_, _)
CoreAssignModels(w, n) ==
    IF w.exc # "" \/ n > Len(w.app_models) THEN w
    ELSE LET app == find_app(w, w.app_models[n].key)
         IN  CoreAssignModels(
               IF app = 0 THEN w
               ELSE CoreAppendModels(w, app, w.app_models[n].val, 1),
               n + 1)

\* core/apps.py:180-182  loaded = True and the post_init signal
CoreSetLoaded(w) ==
    IF w.exc # "" THEN w
    ELSE Send([ w EXCEPT !.loaded = TRUE ], "post_init", << >>)

\* core/apps.py:170-179  the db_prefix check, made once the models are bound
CoreCheckPrefixes(w) ==
    IF w.exc # "" THEN w ELSE CheckPrefixes(w)

\* core/apps.py:157-182  what _populate does at nesting level 0
CoreFinalize(w) ==
    CoreSetLoaded(CoreCheckPrefixes(CoreAssignModels(RetryPostponed(w, 1), 1)))

CorePopulate_looped(w) ==
    IF w.exc # "" THEN w
    ELSE IF w.nesting_level # 0 THEN w
    ELSE CoreFinalize(w)

\* core/apps.py:139-183  _populate of the cache of django.core.apps; the
\* models its imports declare are registered by core_register_models
core_populate(w) ==
    IF w.loaded THEN w
    ELSE CorePopulate_looped(
           PopulateLoop(Send([ w EXCEPT !.core = TRUE ], "pre_init", << >>), 1))

-----------------------------------------------------------------------------
(* _reset and the queries *)

\* cache.py:54-58  the modules of the registered models leave sys.modules
RegisteredModules(w) ==
    UNION { { w.app_models[i].val[j].val.module : j \in 1..Len(w.app_models[i].val) } :
            i \in 1..Len(w.app_models) }

\* a _reset that leaves the lists used while populating as they are
reset_populating(w) ==
    [ w EXCEPT !.loaded_apps = initialize.loaded_apps,
               !.app_models = initialize.app_models,
               !.loaded = initialize.loaded,
               !.get_models_cache = initialize.get_models_cache ]

\* cache.py:48-59  _reset
reset(w) ==
    LET gone == RegisteredModules(w)
        init == initialize
    IN  [ w EXCEPT !.sys_modules = [ m \in DOMAIN w.sys_modules |->
                                      IF m \in gone THEN Absent ELSE w.sys_modules[m] ],
                   !.loaded_apps = init.loaded_apps,
                   !.app_models = init.app_models,
                   !.loaded = init.loaded,
                   !.handled = init.handled,
                   !.postponed = init.postponed,
                   !.nesting_level = init.nesting_level,
                   !.get_models_cache = init.get_models_cache ]

\* cache.py:61-66  _reload
reload(w) == populate(reset(w))

RECURSIVE ModulesOf(_, _)
ModulesOf(w, i) ==
    IF i > Len(w.loaded_apps) THEN << >>
    ELSE ( IF Meta(w, i).models_module # None
           THEN << Meta(w, i).models_module >> ELSE << >> )
         \o ModulesOf(w, i + 1)

\* cache.py:238-239  get_apps once _populate is over
GetApps_populated(w) ==
    IF w.exc # "" THEN w ELSE [ w EXCEPT !.val = ModulesOf(w, 1) ]

\* cache.py:233-239  get_apps
get_apps(w) == GetApps_populated(populate(w))

\* cache.py:247-256  get_app once _populate is over
GetApp_populated(w, app_label, emptyOK) ==
    IF w.exc # "" THEN w
    ELSE IF find_app(w, app_label) # 0
    THEN IF Meta(w, find_app(w, app_label)).models_module = None
         THEN IF emptyOK
              THEN [ w EXCEPT !.val = None ]
              ELSE Raise(w, "ImproperlyConfigured", Error("could not be found"))
         ELSE [ w EXCEPT !.val = Meta(w, find_app(w, app_label)).models_module ]
    ELSE Raise(w, "ImproperlyConfigured", Error("could not be found"))

\* cache.py:241-256  get_app
get_app(w, app_label, emptyOK) == GetApp_populated(populate(w), app_label, emptyOK)

\* core/apps.py:307-311  what get_app makes of the answer of load_app. The
\* handled of that class is a dictionary (core/apps.py:231): a name it
\* holds is not entered again.
CoreGetApp_loaded(w, handled_before, name, emptyOK) ==
    IF w.exc # "" THEN w
    ELSE IF w.val = None
    THEN IF emptyOK
         THEN [ w EXCEPT !.val = None,
                         !.handled = IF name \in Range(handled_before)
                                     THEN handled_before ELSE @ ]
         \* neither a return nor a raise follows: the method ends, None
         ELSE [ w EXCEPT !.val = None,
                         !.handled = IF name \in Range(handled_before)
                                     THEN handled_before ELSE @ ]
    ELSE [ w EXCEPT !.handled = IF name \in Range(handled_before)
                                THEN handled_before ELSE @ ]

\* core/apps.py:302-306  get_app once _populate is over
CoreGetApp_populated(w, app_label, emptyOK) ==
    IF w.exc # "" THEN w
    ELSE IF find_app(w, app_label) = 0
    THEN Raise(w, "ImproperlyConfigured", Error("could not be found"))
    ELSE CoreGetApp_loaded(
             load_app(w, Meta(w, find_app(w, app_label)).name, << >>, FALSE),
             w.handled, Meta(w, find_app(w, app_label)).name, emptyOK)

\* core/apps.py:294-313  get_app of the older AppCache: it loads the app
\* again and answers what load_app answers
core_get_app(w, app_label, emptyOK) ==
    CoreGetApp_populated(populate(w), app_label, emptyOK)

\* cache.py:258-267  get_app_errors: no code appends to _meta.errors
\* (options.py:15), so no instance has any
GetAppErrors_populated(w) ==
    IF w.exc # "" THEN w ELSE [ w EXCEPT !.val = << >> ]

get_app_errors(w) == GetAppErrors_populated(populate(w))

\* a filter that lets every model pass
FilterNothing(models, include_auto_created, include_deferred, i) ==
    SubSeq(models, i, Len(models))

\* cache.py:303-308  the models of one application that the flags let pass
RECURSIVE FilterModels(_, _, _, _)
FilterModels(models, include_auto_created, include_deferred, i) ==
    IF i > Len(models) THEN << >>
    ELSE ( IF /\ (~models[i].deferred \/ include_deferred)
              /\ (~models[i].auto_created \/ include_auto_created)
           THEN << models[i] >> ELSE << >> )
         \o FilterModels(models, include_auto_created, include_deferred, i + 1)

RECURSIVE ModelsOfApps(_, _, _, _)
ModelsOfApps(app_list, include_auto_created, include_deferred, i) ==
    IF i > Len(app_list) THEN << >>
    ELSE FilterModels(DictValues(app_list[i]), include_auto_created, include_deferred, 1)
         \o ModelsOfApps(app_list, include_auto_created, include_deferred, i + 1)

\* get_models answering every registered model whatever only_installed is
ComputeModels_registered(w, key) ==
    ModelsOfApps(DictValues(w.app_models), key.include_auto_created,
                 key.include_deferred, 1)

\* cache.py:291-310  get_models once the memo has been missed
ComputeModels(w, key) ==
    LET app_label == key.app_mod[Len(key.app_mod) - 1]
        app == find_app(w, app_label)
        app_list ==
            IF key.app_mod # None /\ key.only_installed
            THEN IF app # 0 THEN << Meta(w, app).models >> ELSE << >>
            ELSE IF key.only_installed
            THEN [ i \in 1..Len(w.loaded_apps) |-> Meta(w, i).models ]
            ELSE DictValues(w.app_models)
    IN  ModelsOfApps(app_list, key.include_auto_created, key.include_deferred, 1)

\* cache.py:290-310  the list is computed and kept in the memo
GetModels_populated(w, key) ==
    IF w.exc # "" THEN w
    ELSE [ w EXCEPT !.get_models_cache =
                       @ \cup { [ key |-> key, val |-> ComputeModels(w, key) ] },
                    !.val = ComputeModels(w, key) ]

\* cache.py:269-310  get_models
get_models(w, key) ==
    IF \E e \in w.get_models_cache : e.key = key
    THEN [ w EXCEPT !.val = (CHOOSE e \in w.get_models_cache : e.key = key).val ]
    ELSE GetModels_populated(populate(w), key)

\* core/apps.py:345-360  get_models of the older AppCache once _populate is
\* over: app_list is assigned when no module is given or the app of the
\* module has an instance, and the loop of line 354 reads it in every case
CoreGetModels_populated(w, key) ==
    LET app_label == key.app_mod[Len(key.app_mod) - 1]
        app == find_app(w, app_label)
        app_list ==
            IF key.app_mod # None THEN << Meta(w, app).models >>
            ELSE [ i \in 1..Len(w.loaded_apps) |-> Meta(w, i).models ]
    IN  IF w.exc # "" THEN w
        ELSE IF key.app_mod # None /\ app = 0
        THEN Raise(w, "UnboundLocalError", Error("app_list"))
        ELSE [ w EXCEPT !.get_models_cache =
                           @ \cup { [ key |-> key,
                                      val |-> ModelsOfApps(app_list, key.include_auto_created,
                                                           key.include_deferred, 1) ] },
                        !.val = ModelsOfApps(app_list, key.include_auto_created,
                                             key.include_deferred, 1) ]

\* core/apps.py:326-361  get_models of the older AppCache; its memo key has
\* no only_installed (core/apps.py:340)
core_get_models(w, key) ==
    IF \E e \in w.get_models_cache : e.key = key
    THEN [ w EXCEPT !.val = (CHOOSE e \in w.get_models_cache : e.key = key).val ]
    ELSE CoreGetModels_populated(populate(w), key)

\* a lookup by the name as it is written
Lookup_exact(model_dict, model_name) ==
    IF DictHas(model_dict, model_name)
    THEN << DictGet(model_dict, model_name, None) >>
    ELSE None

\* the model of that name in a dictionary of models, in a 1-tuple; None
Lookup(model_dict, model_name) ==
    IF DictHas(model_dict, Lower(model_name))
    THEN << DictGet(model_dict, Lower(model_name), None) >>
    ELSE None

\* cache.py:320-327  get_model once the cache is seeded
GetModel_seeded(w, app_label, model_name, only_installed) ==
    IF w.exc # "" THEN w
    ELSE IF only_installed
    THEN IF find_app(w, app_label) = 0 THEN [ w EXCEPT !.val = None ]
         ELSE [ w EXCEPT !.val =
                  Lookup(Meta(w, find_app(w, app_label)).models, model_name) ]
    ELSE [ w EXCEPT !.val =
             Lookup(DictGet(w.app_models, app_label, << >>), model_name) ]

\* cache.py:312-327  get_model; the model, or None
get_model(w, app_label, model_name, seed_cache, only_installed) ==
    IF seed_cache
    THEN GetModel_seeded(populate(w), app_label, model_name, only_installed)
    ELSE GetModel_seeded(w, app_label, model_name, only_installed)

-----------------------------------------------------------------------------
(* The configurations and the arguments the cache is called with *)

Entry(name) == [ name |-> name, kwargs |-> << >> ]

EntryWith(name, key, value) ==
    [ name |-> name, kwargs |-> << [ key |-> key, val |-> value ] >> ]

\* the values of settings.INSTALLED_APPS
Configurations ==
    { << >>,
      << Entry(<<"model_app">>) >>,
      << Entry(<<"nomodel_app">>) >>,
      \* tests.py:170  one application named twice
      << Entry(<<"model_app", "app", "MyApp">>), Entry(<<"model_app">>) >>,
      << Entry(<<"model_app">>), Entry(<<"model_app", "app", "MyApp">>) >>,
      \* tests.py:188  two applications with the db_prefix 'nomodel_app'
      << Entry(<<"nomodel_app", "app", "MyApp">>),
         Entry(<<"model_app", "app", "MyOtherApp">>) >>,
      \* after tests.py:583-588  the same, by an override
      << Entry(<<"nomodel_app">>),
         EntryWith(<<"model_app", "app", "MyApp">>, "db_prefix", <<"nomodel_app">>) >>,
      \* tests.py:565  an override of db_prefix, and the class without it
      << EntryWith(<<"model_app", "app", "MyOverrideApp">>, "db_prefix", <<"foobar_prefix">>) >>,
      << Entry(<<"model_app", "app", "MyOverrideApp">>) >>,
      \* models modules that import each other
      << Entry(<<"app_a">>), Entry(<<"app_b">>) >>,
      \* a models module that loads an application configured after the next
      << Entry(<<"loader_app">>), Entry(<<"model_app">>), Entry(<<"nomodel_app">>) >>,
      \* tests.py:629
      << Entry(<<"model_app">>), Entry(<<"anothermodel_app">>) >>,
      \* a models module that calls _populate while it is imported
      << Entry(<<"nested_app">>), Entry(<<"model_app">>) >>,
      \* a models module that cannot be imported
      << Entry(<<"broken_app">>) >> }

\* the arguments of the direct calls of load_app: app_name, can_postpone
LoadArguments ==
    { \* tests.py:470-471
      << <<"model_app">>, FALSE >>,
      \* tests.py:448, 406
      << <<"model_app", "app", "MyApp">>, FALSE >>,
      << <<"model_app", "app", "MyOtherApp">>, FALSE >>,
      \* tests.py:82-84
      << <<"nomodel_app">>, FALSE >>,
      \* the module of tests.py:699, postponable as at tests.py:84
      << <<"broken_app">>, TRUE >>,
      \* tests.py:481  no such module
      << <<"garageland">>, FALSE >> }

\* the models modules imported by hand (tests.py:253-254)
HandImports == { <<"model_app", "models">>, <<"anothermodel_app", "models">> }

\* the labels asked for
Labels == { "model_app", "nomodel_app", "notarealapp" }

\* the labels models are registered under by hand (tests.py:508)
HandLabels == { "model_app", "notarealapp" }

\* the models registered by hand (tests.py:508), and a deferred one
HandModels ==
    { Model("Person", <<"model_app", "models">>, FALSE),
      Deferred(Model("Person", <<"model_app", "models">>, FALSE)) }

\* the argument tuples of get_models
ModelsKey(app_mod, include_auto_created, include_deferred, only_installed) ==
    [ app_mod |-> app_mod, include_auto_created |-> include_auto_created,
      include_deferred |-> include_deferred, only_installed |-> only_installed ]

ModelsKeys ==
    { ModelsKey(None, FALSE, FALSE, TRUE),
      ModelsKey(None, TRUE, FALSE, FALSE) }

\* the argument tuples of the calls of get_models with a module
\* (tests.py:277, 289)
ModuleKeys ==
    { ModelsKey(m, FALSE, FALSE, o) : m \in HandImports, o \in BOOLEAN }

\* the argument tuples of get_models of the older AppCache
\* (core/apps.py:326-327)
CoreKey(app_mod, include_auto_created, include_deferred) ==
    [ app_mod |-> app_mod, include_auto_created |-> include_auto_created,
      include_deferred |-> include_deferred ]

CoreModuleKeys == { CoreKey(m, FALSE, FALSE) : m \in HandImports }

\* the argument tuples of the calls of get_models without a module
\* (tests.py:256, 267, 298)
HandKeys ==
    { ModelsKey(None, FALSE, FALSE, TRUE),
      ModelsKey(None, TRUE, FALSE, TRUE),
      ModelsKey(None, FALSE, TRUE, TRUE),
      ModelsKey(None, FALSE, FALSE, FALSE) }

\* the configurations of the tests of get_models (tests.py:255, 275, 297)
HandConfigurations ==
    { << >>,
      << Entry(<<"model_app">>) >>,
      << Entry(<<"anothermodel_app">>) >>,
      << Entry(<<"model_app">>), Entry(<<"anothermodel_app">>) >> }

\* the longest configuration
MaxConfiguration == 3

\* calls that may load applications are made while len(handled) is below this
HandledCap == MaxHandled + MaxConfiguration

Threads == 1..NumThreads

-----------------------------------------------------------------------------
(* The calls *)

NoCall ==
    [ op |-> "", name |-> None, label |-> "", flag |-> FALSE,
      exc |-> "", err |-> NoErr, val |-> None,
      nesting_level |-> 0, again |-> FALSE, mod |-> None,
      first |-> FALSE, was_loaded |-> FALSE,
      key |-> ModelsKey(None, FALSE, FALSE, TRUE), model_name |-> "",
      kwargs |-> << >> ]

\* the instances of application `name` (their _meta.name)
InstancesOf(w, name) ==
    { i \in 1..Len(w.loaded_apps) : Meta(w, i).name = name }

\* the application an identifier names: the module path itself, or the
\* package of the module that defines the class
ApplicationOf(app_name) ==
    IF app_name \in DeclaredApps THEN DeclaredAppName(app_name) ELSE app_name

\* the models module recorded for application `name`, None when there is none
RecordedModule(w, name) ==
    IF InstancesOf(w, name) = {} THEN None
    ELSE Meta(w, CHOOSE i \in InstancesOf(w, name) :
                    \A j \in InstancesOf(w, name) : i <= j).models_module

\* what is kept of a call: its arguments, its outcome in w, and from the
\* state it started in: nesting_level, whether the identifier had been
\* loaded before, the models module recorded for its application, whether
\* it is the first call made, and loaded; for get_models and get_model,
\* key and model_name are the other arguments
Call(op, name, label, flag, w) ==
    [ op |-> op, name |-> name, label |-> label, flag |-> flag,
      exc |-> w.exc, err |-> w.err, val |-> w.val,
      nesting_level |-> nesting_level,
      again |-> name \in Range(handled),
      mod |-> IF name = None THEN None ELSE RecordedModule(W, ApplicationOf(name)),
      first |-> pristine, was_loaded |-> loaded,
      key |-> NoCall.key, model_name |-> NoCall.model_name,
      kwargs |-> NoCall.kwargs ]

\* the state after a call that ended in w
Becomes(w) ==
    /\ loaded_apps' = w.loaded_apps
    /\ app_models' = w.app_models
    /\ loaded' = w.loaded
    /\ handled' = w.handled
    /\ postponed' = w.postponed
    /\ nesting_level' = w.nesting_level
    /\ get_models_cache' = w.get_models_cache
    /\ class_meta' = w.class_meta
    /\ sys_modules' = w.sys_modules
    /\ sent' = w.sent
    /\ registered' = w.registered
    /\ pristine' = FALSE

\* the call has ended in w
Returns(op, name, label, flag, w) ==
    Becomes(w) /\ ret' = Call(op, name, label, flag, w)

InitWith(configurations) ==
    /\ loaded_apps = initialize.loaded_apps
    /\ app_models = initialize.app_models
    /\ loaded = initialize.loaded
    /\ handled = initialize.handled
    /\ postponed = initialize.postponed
    /\ nesting_level = initialize.nesting_level
    /\ get_models_cache = initialize.get_models_cache
    /\ write_lock = [ owner |-> 0, count |-> 0 ]
    /\ class_meta = [ c \in DeclaredApps |-> AppBase_new(c) ]
    /\ sys_modules = [ m \in ModelsModules |-> Absent ]
    /\ INSTALLED_APPS \in configurations
    /\ sent = << >>
    /\ registered = << >>
    /\ ret = NoCall
    /\ pristine = TRUE
    /\ pc = [ t \in Threads |-> "start" ]
    /\ cursor = [ t \in Threads |-> 1 ]
    /\ finalized = << >>
    /\ observed = [ t \in Threads |-> << >> ]

Init == InitWith(Configurations)

\* settings.INSTALLED_APPS = configuration
Configure(configuration) ==
    /\ configuration # INSTALLED_APPS
    /\ handled = << >> /\ app_models = << >>
    /\ INSTALLED_APPS' = configuration
    /\ ret' = NoCall
    /\ UNCHANGED << cache_vars, thread_vars, pristine >>

Populate ==
    /\ Len(handled) < HandledCap
    /\ Returns("_populate", None, "", FALSE,
               populate(W))
    /\ UNCHANGED << INSTALLED_APPS, thread_vars >>

LoadApp(app_name, can_postpone) ==
    /\ Len(handled) < MaxHandled
    /\ Returns("load_app", app_name, "", can_postpone,
               load_app(W, app_name, << >>, can_postpone))
    /\ UNCHANGED << INSTALLED_APPS, thread_vars >>

RegisterModels(app_label, model) ==
    /\ Returns("register_models", None, app_label, FALSE,
               register_models(W, app_label, model))
    /\ UNCHANGED << INSTALLED_APPS, thread_vars >>

\* a models module imported by hand (tests.py:254, 377)
ImportModels(m) ==
    /\ sys_modules[m].state = "absent"
    /\ Len(handled) < HandledCap
    /\ Returns("import", None, "", FALSE,
               import_module(W, m))
    /\ UNCHANGED << INSTALLED_APPS, thread_vars >>

GetApps ==
    /\ Len(handled) < HandledCap
    /\ Returns("get_apps", None, "", FALSE,
               get_apps(W))
    /\ UNCHANGED << INSTALLED_APPS, thread_vars >>

GetApp(app_label, emptyOK) ==
    /\ Len(handled) < HandledCap
    /\ Returns("get_app", None, app_label, emptyOK,
               get_app(W, app_label, emptyOK))
    /\ UNCHANGED << INSTALLED_APPS, thread_vars >>

CoreGetApp(app_label, emptyOK) ==
    /\ Len(handled) < MaxHandled
    /\ Returns("core.get_app", None, app_label, emptyOK,
               core_get_app(W, app_label, emptyOK))
    /\ UNCHANGED << INSTALLED_APPS, thread_vars >>

GetAppErrors ==
    /\ Len(handled) < HandledCap
    /\ Returns("get_app_errors", None, "", FALSE,
               get_app_errors(W))
    /\ UNCHANGED << INSTALLED_APPS, thread_vars >>

\* the call has ended in w; key and model_name are arguments of it
ReturnsFor(op, label, flag, key, model_name, w) ==
    /\ Becomes(w)
    /\ ret' = [ Call(op, None, label, flag, w) EXCEPT !.key = key,
                                                      !.model_name = model_name ]

GetModels(key) ==
    /\ Len(handled) < HandledCap
    /\ ReturnsFor("get_models", "", FALSE, key, "",
                  get_models(W, key))
    /\ UNCHANGED << INSTALLED_APPS, thread_vars >>

GetModel(app_label, model_name, seed_cache, only_installed) ==
    /\ Len(handled) < HandledCap
    /\ ReturnsFor("get_model", app_label, seed_cache,
                  ModelsKey(None, FALSE, FALSE, only_installed), model_name,
                  get_model(W, app_label, model_name, seed_cache, only_installed))
    /\ UNCHANGED << INSTALLED_APPS, thread_vars >>

\* the signals kept in sent and the models kept in registered are those
\* sent and stored since the last reset
Reset ==
    /\ Returns("_reset", None, "", FALSE,
               reset([ W EXCEPT !.sent = << >>, !.registered = << >> ]))
    /\ UNCHANGED << INSTALLED_APPS, thread_vars >>

\* tests.py:49-50  settings.INSTALLED_APPS = configuration; cache._reload()
Reload(configuration) ==
    /\ loaded_apps # << >>
    /\ INSTALLED_APPS' = configuration
    /\ Returns("_reload", None, "", FALSE,
               reload([ W EXCEPT !.sent = << >>, !.registered = << >>,
                                !.INSTALLED_APPS = configuration ]))
    /\ UNCHANGED thread_vars

-----------------------------------------------------------------------------
(* _populate called by several threads.  A thread that holds write_lock   *)
(* runs alone but for the reads of loaded made without the lock            *)
(* (cache.py:74); loaded is assigned once everything but the signal is     *)
(* done (cache.py:112), so a turn of the loop and the finalization are     *)
(* each one step.                                                          *)

\* a first check that never finds the cache loaded
LoadedUnlocked_skipped(w) == FALSE

\* cache.py:74  if self.loaded, before the lock is taken
LoadedUnlocked(w) == w.loaded

\* a second check that never finds the cache loaded
NeverLoaded(w) == FALSE

\* cache.py:78  if self.loaded, under the lock
LoadedLocked(w) == w.loaded

At(t, place) == pc' = [ pc EXCEPT ![t] = place ]

\* cache.py:74-75
Enter(t) ==
    /\ pc[t] = "start"
    /\ At(t, IF LoadedUnlocked(W) THEN "return" ELSE "acquire")
    /\ UNCHANGED << cache_vars, INSTALLED_APPS, ret, pristine, write_lock,
                    cursor, finalized, observed >>

\* cache.py:76  write_lock.acquire(), of an RLock
Acquire(t) ==
    /\ pc[t] = "acquire"
    /\ write_lock.owner \in { 0, t }
    /\ write_lock' = [ owner |-> t, count |-> write_lock.count + 1 ]
    /\ At(t, "recheck")
    /\ UNCHANGED << cache_vars, INSTALLED_APPS, ret, pristine, cursor,
                    finalized, observed >>

\* cache.py:78-79
Recheck(t) ==
    /\ pc[t] = "recheck"
    /\ At(t, IF LoadedLocked(W) THEN "release" ELSE "loop")
    /\ cursor' = [ cursor EXCEPT ![t] = 1 ]
    /\ UNCHANGED << cache_vars, INSTALLED_APPS, ret, pristine, write_lock,
                    finalized, observed >>

\* a turn whose exception leaves _populate past the release of the lock
TurnEnds_unreleased(t, w) ==
    /\ Becomes(w)
    /\ At(t, IF w.exc # "" THEN "return" ELSE "loop")
    /\ cursor' = [ cursor EXCEPT ![t] = @ + 1 ]

\* the turn of thread t has ended in w: an exception leaves through finally
TurnEnds(t, w) ==
    /\ Becomes(w)
    /\ At(t, IF w.exc # "" THEN "release" ELSE "loop")
    /\ cursor' = [ cursor EXCEPT ![t] = @ + 1 ]

\* cache.py:80-87
Turn(t) ==
    /\ pc[t] = "loop"
    /\ cursor[t] <= Len(INSTALLED_APPS)
    /\ TurnEnds(t, PopulateTurn(W, cursor[t]))
    /\ UNCHANGED << INSTALLED_APPS, ret, write_lock, finalized, observed >>

\* cache.py:88  the loop is over
LoopEnd(t) ==
    /\ pc[t] = "loop"
    /\ cursor[t] > Len(INSTALLED_APPS)
    /\ At(t, IF nesting_level = 0 THEN "finalize" ELSE "release")
    /\ UNCHANGED << cache_vars, INSTALLED_APPS, ret, pristine, write_lock,
                    cursor, finalized, observed >>

\* cache.py:89-114
Finalization(t) ==
    /\ pc[t] = "finalize"
    /\ Becomes(Finalize(W))
    /\ finalized' = Append(finalized, t)
    /\ At(t, "release")
    /\ UNCHANGED << INSTALLED_APPS, ret, write_lock, cursor, observed >>

\* cache.py:115-116  finally: write_lock.release()
Release(t) ==
    /\ pc[t] = "release"
    /\ write_lock' = [ owner |-> IF write_lock.count = 1 THEN 0 ELSE write_lock.owner,
                       count |-> write_lock.count - 1 ]
    /\ At(t, "return")
    /\ UNCHANGED << cache_vars, INSTALLED_APPS, ret, pristine, cursor,
                    finalized, observed >>

\* the call of thread t is over; what the thread then reads of the cache
Return(t) ==
    /\ pc[t] = "return"
    /\ observed' = [ observed EXCEPT ![t] =
                       << [ loaded |-> loaded, loaded_apps |-> loaded_apps ] >> ]
    /\ At(t, "done")
    /\ UNCHANGED << cache_vars, INSTALLED_APPS, ret, pristine, write_lock,
                    cursor, finalized >>

ThreadStep(t) ==
    \/ Enter(t)
    \/ Acquire(t)
    \/ Recheck(t)
    \/ Turn(t)
    \/ LoopEnd(t)
    \/ Finalization(t)
    \/ Release(t)
    \/ Return(t)

\* a cache nothing was called on, under a configuration
Fresh(configuration) ==
    [ loaded_apps |-> initialize.loaded_apps, app_models |-> initialize.app_models,
      loaded |-> initialize.loaded, handled |-> initialize.handled,
      postponed |-> initialize.postponed,
      nesting_level |-> initialize.nesting_level,
      get_models_cache |-> initialize.get_models_cache,
      class_meta |-> [ c \in DeclaredApps |-> AppBase_new(c) ],
      sys_modules |-> [ m \in ModelsModules |-> Absent ],
      INSTALLED_APPS |-> configuration,
      sent |-> << >>, registered |-> << >>, core |-> FALSE, held |-> 0,
      raising |-> {},
      exc |-> "", err |-> NoErr, val |-> None ]

\* the configurations _populate accepts
ValidConfigurations ==
    { c \in Configurations : populate(Fresh(c)).loaded }

InitThreads == Init /\ INSTALLED_APPS \in ValidConfigurations

NextThreads == \E t \in Threads : ThreadStep(t)

\* the places of a thread in _populate
Places ==
    { "start", "acquire", "recheck", "loop", "finalize", "release", "return", "done" }

\* thread t can run: it has not returned, and does not wait for a lock
\* another thread holds
Runnable(t) ==
    /\ pc[t] # "done"
    /\ pc[t] = "acquire" => write_lock.owner \in { 0, t }

\* thread t moves on: every step of ThreadStep(t) changes its place or its
\* position in the loop
Advances(t) ==
    /\ Runnable(t)
    /\ \E place \in Places, i \in 1..(MaxConfiguration + 1) :
          /\ pc' = [ pc EXCEPT ![t] = place ]
          /\ cursor' = [ cursor EXCEPT ![t] = i ]

\* the scheduler lets every thread that can run move on, so a released lock
\* is taken by a thread that waits for it
SpecThreads ==
    /\ InitThreads
    /\ [][NextThreads]_vars
    /\ \A t \in Threads : WF_<< pc, cursor >>(Advances(t))

\* the calls made on one configuration, without a reset
Next ==
    \/ Populate
    \/ \E a \in LoadArguments : LoadApp(a[1], a[2])
    \/ GetApps
    \/ \E l \in Labels, e \in BOOLEAN : GetApp(l, e)
    \/ \E l \in Labels, e \in BOOLEAN : CoreGetApp(l, e)
    \/ GetAppErrors
    \/ \E k \in ModelsKeys : GetModels(k)
    \/ \E s \in BOOLEAN : GetModel("model_app", "Person", s, TRUE)

Spec == Init /\ [][Next]_vars

\* a cache populated, reset and populated again, as ReloadTests does
\* (tests.py:41-63)
NextReload ==
    \/ \E c \in Configurations : Configure(c)
    \/ Populate
    \/ GetApps
    \/ Reset
    \/ \E c \in Configurations : Reload(c)

SpecReload == Init /\ [][NextReload]_vars

\* models registered and models modules imported by hand
NextHand ==
    \/ Populate
    \/ \E l \in HandLabels, m \in HandModels : RegisterModels(l, m)
    \/ \E m \in HandImports : ImportModels(m)
    \/ \E k \in HandKeys : GetModels(k)

InitHand == InitWith(HandConfigurations)

SpecHand == InitHand /\ [][NextHand]_vars

\* the configurations of the calls of get_model (tests.py:330, 338), and one
\* whose population fails
ModelConfigurations ==
    { << >>,
      << Entry(<<"model_app">>) >>,
      << Entry(<<"broken_app">>) >> }

\* the names models are asked by (tests.py:331), in another case, and of a
\* model of another application
ModelNames == { "Person", "PERSON", "Job" }

InitModel == InitWith(ModelConfigurations)

\* The calls of get_model (tests.py:325-379)
NextModel ==
    \/ Populate
    \/ \E m \in HandImports : ImportModels(m)
    \/ \E l \in HandLabels : RegisterModels(l, Model("Person", <<"model_app", "models">>, FALSE))
    \/ \E l \in HandLabels, n \in ModelNames, s \in BOOLEAN, o \in BOOLEAN :
          GetModel(l, n, s, o)

SpecModel == InitModel /\ [][NextModel]_vars

\* the overrides that name a models module (tests.py:557-576 for the
\* overrides, model_app/app.py:6-7 for models_path)
ModelsPath(path) == << [ key |-> "models_path", val |-> path ] >>

\* the calls of load_app on applications whose models module is missing
\* (tests.py:458) or fails (tests.py:699), under the default models_path and
\* under one the overrides name
LoadCases ==
    { << <<"model_app">>, << >> >>,
      << <<"nomodel_app">>, << >> >>,
      << <<"broken_app">>, << >> >>,
      << <<"model_app">>, ModelsPath(<<"model_app", "nosuchmodels">>) >>,
      << <<"custom_app">>, ModelsPath(<<"custom_app", "custommodels">>) >> }

LoadConfigurations ==
    { << >>,
      << Entry(<<"nomodel_app">>), Entry(<<"broken_app">>) >>,
      << [ name |-> <<"custom_app">>,
           kwargs |-> ModelsPath(<<"custom_app", "custommodels">>) ] >> }

InitLoad == InitWith(LoadConfigurations)

LoadAppWith(app_name, app_kwargs, can_postpone) ==
    /\ Len(handled) < MaxHandled
    /\ Becomes(load_app(W, app_name, app_kwargs, can_postpone))
    /\ ret' = [ Call("load_app", app_name, "", can_postpone,
                     load_app(W, app_name, app_kwargs, can_postpone))
                  EXCEPT !.kwargs = app_kwargs ]
    /\ UNCHANGED << INSTALLED_APPS, thread_vars >>

\* The calls of load_app on models modules that cannot be imported
\* (tests.py:454-463, 692-705)
NextLoad ==
    \/ Populate
    \/ \E c \in LoadCases, can_postpone \in BOOLEAN : LoadAppWith(c[1], c[2], can_postpone)

SpecLoad == InitLoad /\ [][NextLoad]_vars

\* the segments of the identifiers get_app_class is called with
\* (tests.py:94, 103, 111, 119, 127, 136; model_app/app.py:1)
Segments ==
    { "model_app", "nomodel_app", "app", "MyApp", "ObjectApp", "NotThereApp",
      "apps", "contrib", "admin", "lalalala" }

\* the identifiers of one segment (tests.py:103), of two (tests.py:119) and
\* of three (tests.py:94)
Identifiers ==
    { << a >> : a \in Segments }
      \cup { << a, b >> : a \in Segments, b \in Segments }
      \cup { << a, b, c >> : a \in Segments, b \in Segments, c \in Segments }

GetAppClass(app_name) ==
    /\ ret' = [ NoCall EXCEPT !.op = "get_app_class",
                              !.name = app_name,
                              !.exc = get_app_class(app_name).exc,
                              !.err = get_app_class(app_name).err,
                              !.flag = get_app_class(app_name).synth,
                              !.val = get_app_class(app_name).cls ]
    /\ UNCHANGED << cache_vars, INSTALLED_APPS, thread_vars, pristine >>

\* The calls of get_app_class (tests.py:88-139)
NextClass == \E app_name \in Identifiers : GetAppClass(app_name)

InitClass == InitWith({ << >> })

SpecClass == InitClass /\ [][NextClass]_vars

\* the configurations with overrides: the one of tests.py:561-570; the three
\* options of the descriptor on an application without a class; models_path
\* on a class whose Meta declares one (model_app/app.py:6-7); and one
\* application named twice (tests.py:170), the second time with an override
OverrideConfigurations ==
    { << >>,
      << [ name |-> <<"contrib", "admin">>,
           kwargs |-> << [ key |-> "spam", val |-> <<"spam">> ] >> ],
         [ name |-> <<"model_app", "app", "MyOverrideApp">>,
           kwargs |-> << [ key |-> "db_prefix", val |-> <<"foobar_prefix">> ],
                         [ key |-> "eggs", val |-> <<"eggs">> ] >> ] >>,
      << [ name |-> <<"model_app">>,
           kwargs |-> << [ key |-> "verbose_name", val |-> <<"Models">> ],
                         [ key |-> "db_prefix", val |-> <<"mp">> ],
                         [ key |-> "models_path", val |-> <<"model_app", "othermodels">> ] >> ] >>,
      << EntryWith(<<"model_app", "app", "MyApp">>, "models_path", <<"model_app", "models">>) >>,
      << Entry(<<"model_app", "app", "MyApp">>),
         EntryWith(<<"model_app">>, "db_prefix", <<"foobar_prefix">>) >> }

InitOverride == InitWith(OverrideConfigurations)

\* The populations under overrides (tests.py:557-576)
NextOverride ==
    \/ Populate
    \/ GetApps
    \/ Reset
    \/ \E c \in OverrideConfigurations : Reload(c)

SpecOverride == InitOverride /\ [][NextOverride]_vars

\* the models of one name that two files define (model_app/models.py and
\* anothermodel_app/models.py:10)
SameNameModels ==
    { Model("Person", <<"model_app", "models">>, FALSE),
      Model("Person", <<"anothermodel_app", "models">>, FALSE) }

\* the most registrations stored before register_models is called by hand
MaxRegistered == 6

\* register_models called by hand (tests.py:508) with a model whose module
\* was imported
RegisterAgain(app_label, model) ==
    /\ sys_modules[model.module].state = "imported"
    /\ Len(registered) < MaxRegistered
    /\ ReturnsFor("register_models", app_label, FALSE, NoCall.key, model.object_name,
                  register_models(W, app_label, model))
    /\ UNCHANGED << INSTALLED_APPS, thread_vars >>

InitDup == InitWith({ << >>, << Entry(<<"model_app">>) >> })

\* The registrations of one name under one label
NextDup ==
    \/ Populate
    \/ \E m \in HandImports : ImportModels(m)
    \/ \E l \in HandLabels, m \in SameNameModels : RegisterAgain(l, m)

SpecDup == InitDup /\ [][NextDup]_vars

\* the applications loaded by hand around a population (tests.py:493-494)
BindArguments == { <<"model_app">>, <<"anothermodel_app">> }

InitBind == InitWith({ << >>, << Entry(<<"model_app">>) >> })

\* The models imported and the applications loaded before and after the
\* cache is ready (tests.py:487-497)
NextBind ==
    \/ Populate
    \/ \E m \in HandImports : ImportModels(m)
    \/ \E a \in BindArguments : LoadApp(a, FALSE)

SpecBind == InitBind /\ [][NextBind]_vars

\* get_models is handed a module: one that was imported (tests.py:272, 284)
GetModelsOf(key) ==
    /\ sys_modules[key.app_mod].state = "imported"
    /\ GetModels(key)

CoreGetModels(key) ==
    /\ sys_modules[key.app_mod].state = "imported"
    /\ Len(handled) < HandledCap
    /\ ReturnsFor("core.get_models", "", FALSE, key, "",
                  core_get_models(W, key))
    /\ UNCHANGED << INSTALLED_APPS, thread_vars >>

\* The calls of get_models with a module (tests.py:271-291)
NextMod ==
    \/ Populate
    \/ \E m \in HandImports : ImportModels(m)
    \/ \E k \in ModuleKeys : GetModelsOf(k)
    \/ \E k \in CoreModuleKeys : CoreGetModels(k)

SpecMod == InitHand /\ [][NextMod]_vars

-----------------------------------------------------------------------------
(* Properties *)

\* the identifiers load_app is given that name an application: a module
\* path, or a path to a subclass of App
ValidIdentifiers ==
    { a[1] : a \in { b \in LoadArguments : get_app_class(b[1]).exc = "" } }

\* C1: a second load_app of a valid identifier, with no reset since the
\* first, leaves exactly one instance of that application in loaded_apps and
\* answers the models module the first call recorded.
C1_LoadAppIsIdempotent ==
    ( /\ ret.op = "load_app"
      /\ ret.name \in ValidIdentifiers
      /\ ret.again
      /\ ret.exc = "" )
    => /\ Cardinality(InstancesOf(W, ApplicationOf(ret.name))) = 1
       /\ ret.val = ret.mod

\* C2: in every state no two instances of loaded_apps have the same
\* _meta.label, so that an application named twice in INSTALLED_APPS, by its
\* module path and by the path of its App class, gets one instance.
C2_OneInstancePerLabel ==
    \A i, j \in 1..Len(loaded_apps) :
        i # j => Meta(W, i).label # Meta(W, j).label

\* two distinct instances of loaded_apps with one db_prefix
SharePrefix(i, j) ==
    /\ i \in 1..Len(loaded_apps)
    /\ j \in 1..Len(loaded_apps)
    /\ i # j
    /\ Meta(W, i).db_prefix = Meta(W, j).db_prefix

\* a _populate that had the finalization of cache.py:88-114 to run: entered
\* with loaded false and nesting_level 0, and not ended by an import error
PopulateFinalizes ==
    /\ ret.op = "_populate"
    /\ ~ret.was_loaded
    /\ ret.nesting_level = 0
    /\ ret.exc # "ImportError"

\* C4: when two of the applications end up with the same db_prefix, from a
\* class Meta or from an override of the settings, _populate raises
\* ImproperlyConfigured naming two such applications and their prefix, and
\* loaded stays false.
C4_SamePrefixRaises ==
    ( PopulateFinalizes /\ \E i, j \in 1..Len(loaded_apps) : SharePrefix(i, j) )
    => /\ ret.exc = "ImproperlyConfigured"
       /\ ret.err.what = "have the same db_prefix"
       /\ SharePrefix(ret.err.app1, ret.err.app2)
       /\ ret.err.prefix = Meta(W, ret.err.app1).db_prefix
       /\ ~loaded

\* two applications made to share a prefix by an override (tests.py:578-589)
C4_Witness ==
    /\ PopulateFinalizes
    /\ ret.first
    /\ ret.exc = "ImproperlyConfigured"
    /\ Len(loaded_apps) = 2
    /\ SharePrefix(1, 2)
    /\ INSTALLED_APPS[2].kwargs # << >>

\* C5: whenever loaded is true, any two distinct instances of loaded_apps
\* have different db_prefix values, load_app calls made once the cache is
\* ready included.
C5_PrefixesDifferWhenLoaded ==
    loaded => ~ \E i, j \in 1..Len(loaded_apps) : SharePrefix(i, j)

\* two applications whose models modules import each other
CircularConfiguration == << Entry(<<"app_a">>), Entry(<<"app_b">>) >>

\* every model registered under the label of the instance at index i is in
\* the _meta.models of that instance, and there is one
BoundToOwnInstance(i) ==
    /\ i # 0
    /\ DictHas(app_models, Meta(W, i).label)
    /\ DictGet(app_models, Meta(W, i).label, << >>) # << >>
    /\ Meta(W, i).models = DictGet(app_models, Meta(W, i).label, << >>)
    /\ \A k \in 1..Len(Meta(W, i).models) :
           ModelLabel(Meta(W, i).models[k].val) = Meta(W, i).label

\* C6: with INSTALLED_APPS = [A, B], the models module of A importing that
\* of B and that of B importing that of A, _populate called on a cache not
\* used before returns without raising, loaded is true, and the models of A
\* and of B are bound each to the instance of its application.
C6_CircularImportsResolve ==
    ( /\ ret.op = "_populate"
      /\ ret.first
      /\ INSTALLED_APPS = CircularConfiguration )
    => /\ ret.exc = ""
       /\ loaded
       /\ Len(loaded_apps) = 2
       /\ BoundToOwnInstance(find_app(W, "app_a"))
       /\ BoundToOwnInstance(find_app(W, "app_b"))

\* the first pass over A raised ImportError and A was postponed
C6_Witness ==
    /\ ret.op = "_populate"
    /\ ret.first
    /\ INSTALLED_APPS = CircularConfiguration
    /\ loaded
    /\ Len(postponed) = 1
    /\ postponed[1].name = <<"app_a">>
    /\ Meta(W, find_app(W, "app_a")).models_module = <<"app_a", "models">>

\* the calls that answer from the cache
Queries == { "get_apps", "get_app", "get_app_errors", "get_models", "get_model" }

\* the error get_app raises for a label it does not find
OwnLookupError ==
    /\ ret.op = "get_app"
    /\ ret.exc = "ImproperlyConfigured"
    /\ ret.err.what = "could not be found"

\* C7: under a configuration that populates without error, whenever
\* get_apps, get_app, get_app_errors, get_models or get_model with
\* seed_cache=True returns, or raises only its own lookup error, loaded is
\* true afterwards.
C7_QueriesPopulateFirst ==
    ( /\ ret.op \in Queries
      /\ ret.op = "get_model" => ret.flag
      /\ INSTALLED_APPS \in ValidConfigurations
      /\ ret.exc = "" \/ OwnLookupError )
    => loaded

\* the instance get_app looked for, 0 when there is none
Asked == find_app(W, ret.label)

\* C8: get_app(label, emptyOK), of either AppCache, once the cache is
\* populated: it raises ImproperlyConfigured when no instance has the label;
\* it returns the models module of the instance that has one; for an instance
\* without a models module it returns None when emptyOK is true and raises
\* ImproperlyConfigured when emptyOK is false.
C8_GetAppContract ==
    ( ret.op \in { "get_app", "core.get_app" } /\ loaded )
    => /\ Asked = 0 => ret.exc = "ImproperlyConfigured"
       /\ Asked # 0 =>
            IF Meta(W, Asked).models_module # None
            THEN ret.exc = "" /\ ret.val = Meta(W, Asked).models_module
            ELSE IF ret.flag
                 THEN ret.exc = "" /\ ret.val = None
                 ELSE ret.exc = "ImproperlyConfigured"

\* the identifiers of a configuration
Names(configuration) ==
    [ k \in 1..Len(configuration) |-> configuration[k].name ]

\* a sequence without the later occurrences of its elements
RECURSIVE Dedup(_)
Dedup(seq) ==
    IF seq = << >> THEN << >>
    ELSE IF Last(seq) \in Range(Front(seq)) THEN Dedup(Front(seq))
    ELSE Append(Dedup(Front(seq)), Last(seq))

\* the applications of INSTALLED_APPS, in the order they first appear there
ConfiguredApplications ==
    Dedup([ k \in 1..Len(INSTALLED_APPS) |-> ApplicationOf(INSTALLED_APPS[k].name) ])

\* the applications of the instances of loaded_apps, in its order
LoadedApplications ==
    [ i \in 1..Len(loaded_apps) |-> Meta(W, i).name ]

\* a _populate that succeeded on a cache not used before
PopulatedAtFirst ==
    /\ ret.op = "_populate"
    /\ ret.first
    /\ ret.exc = ""
    /\ loaded

\* C9 as stated: after a successful _populate, loaded_apps lists the
\* instances in the order of their identifiers in INSTALLED_APPS, for every
\* configuration, those whose models modules load another configured
\* application included.
C9_ConfigurationOrder ==
    PopulatedAtFirst => LoadedApplications = ConfiguredApplications

\* a _populate that returned with the cache populated
PopulateSucceeded ==
    /\ ret.op = "_populate"
    /\ ret.exc = ""
    /\ loaded

\* C9 amended: after a successful _populate, loaded_apps lists the instances
\* in the order they were made; that is the order of INSTALLED_APPS when
\* load_app was first called on the identifiers in that order, so when
\* nothing loaded a configured application ahead of its turn. An application
\* counts at the place of its first instance.
C9_CreationOrder ==
    ( PopulateSucceeded /\ Dedup(handled) = Dedup(Names(INSTALLED_APPS)) )
    => Dedup(LoadedApplications) = ConfiguredApplications

\* several applications, loaded each in its turn
C9_Witness ==
    /\ PopulatedAtFirst
    /\ Dedup(handled) = Dedup(Names(INSTALLED_APPS))
    /\ Len(loaded_apps) >= 2
    /\ LoadedApplications = ConfiguredApplications

AllDone == \A t \in Threads : pc[t] = "done"

\* C3: under a valid configuration, however the threads that call _populate
\* on an unpopulated cache interleave, at most one of them runs the
\* finalization and exactly one has once all are done; every call returns;
\* and what a thread reads after its return is loaded = True and the
\* loaded_apps every other thread reads.
C3_ConcurrentPopulate ==
    /\ [](Len(finalized) <= 1)
    /\ [](AllDone => Len(finalized) = 1)
    /\ [](\A t \in Threads :
            pc[t] = "done" =>
              observed[t] = << [ loaded |-> TRUE, loaded_apps |-> loaded_apps ] >>)
    /\ <>AllDone

\* a thread that found the cache unpopulated before it took the lock finds
\* it populated under the lock
C3_Witness ==
    \E t \in Threads :
        /\ pc[t] = "recheck"
        /\ loaded
        /\ Len(finalized) = 1
        /\ finalized[1] # t
        /\ Len(loaded_apps) >= 2

\* what the queries show of a cache: the instances with their label,
\* db_prefix, models_path, models_module and models, and the index of the
\* models
Observable(w) ==
    [ loaded |-> w.loaded,
      apps |-> [ i \in 1..Len(w.loaded_apps) |->
                   [ label |-> Meta(w, i).label,
                     db_prefix |-> Meta(w, i).db_prefix,
                     models_path |-> Meta(w, i).models_path,
                     models_module |-> Meta(w, i).models_module,
                     models |-> Meta(w, i).models ] ],
      app_models |-> w.app_models ]

\* the cache is as w, and the last call ended as the call that made w
SameAs(w) == Observable(W) = Observable(w) /\ ret.exc = w.exc

\* C10: a cache populated under a configuration, then reset and populated
\* under a configuration C2, shows what a cache not used before shows once
\* populated under C2.
C10_ReloadRoundTrip ==
    ret.op = "_reload" => SameAs(populate(Fresh(INSTALLED_APPS)))

\* the argument tuples that differ from key by one more flag
OneMoreFlag(key) ==
    { [ key EXCEPT !.include_auto_created = TRUE ],
      [ key EXCEPT !.include_deferred = TRUE ] } \ { key }

\* the models the class statements of module m define, in their order
DeclaredModels(m) ==
    LET classes == SelectSeq(ModuleBody(m), LAMBDA st : st.op = "class")
    IN  [ k \in 1..Len(classes) |-> classes[k].model ]

\* every auto-created model of the list stands among the models of its
\* module as its class statement stands among theirs
AtRegistrationPosition(models) ==
    \A i \in 1..Len(models) :
        models[i].auto_created =>
            SelectSeq(models, LAMBDA m : m.module = models[i].module /\ ~m.deferred)
              = SelectSeq(DeclaredModels(models[i].module),
                          LAMBDA m : m \in Range(models))

\* the call w ended in answers the models of the last call and, between
\* them, only models the last call had to leave out
OnlyAdds(w) ==
    /\ w.exc = ""
    /\ FilterModels(w.val, ret.key.include_auto_created,
                    ret.key.include_deferred, 1) = ret.val
    /\ AtRegistrationPosition(w.val)

\* C11: what get_models answers holds an auto-created model only with
\* include_auto_created and a deferred model only with include_deferred, so
\* neither with the default flags; and from the same state, the call with
\* one more flag answers every model of that answer, in the same order,
\* with the auto-created models where their registration put them.
C11_FlagsOnlyAdd ==
    ( ret.op = "get_models" /\ ret.exc = "" )
    => /\ \A i \in 1..Len(ret.val) :
             /\ ret.val[i].auto_created => ret.key.include_auto_created
             /\ ret.val[i].deferred => ret.key.include_deferred
       /\ AtRegistrationPosition(ret.val)
       /\ \A key \in OneMoreFlag(ret.key) : OnlyAdds(get_models(W, key))

\* get_models(include_auto_created=True) answered Job, Person_jobs, Person
\* (tests.py:297-303) while a deferred model is bound, which it left out
C11_Witness ==
    /\ ret.op = "get_models"
    /\ ret.exc = ""
    /\ ret.key = ModelsKey(None, TRUE, FALSE, TRUE)
    /\ \E k \in 2..(Len(ret.val) - 1) :
          /\ ret.val[k].auto_created
          /\ ret.val[k - 1].object_name = "Job"
          /\ ret.val[k + 1].object_name = "Person"
    /\ \E i \in 1..Len(loaded_apps) :
          \E k \in 1..Len(Meta(W, i).models) : Meta(W, i).models[k].val.deferred
    /\ \A k \in 1..Len(ret.val) : ~ret.val[k].deferred

\* the flags of key let model m through
LetThrough(key, m) ==
    /\ ~m.deferred \/ key.include_deferred
    /\ ~m.auto_created \/ key.include_auto_created

\* the models of a list the flags of key let through
Wanted(key, models) == SelectSeq(models, LAMBDA m : LetThrough(key, m))

\* the models bound to the instances of loaded_apps
BoundModels ==
    UNION { Range(DictValues(Meta(W, i).models)) : i \in 1..Len(loaded_apps) }

\* the labels models were registered under, in the order of their first
\* registration
RegisteredLabels ==
    Dedup([ k \in 1..Len(registered) |-> registered[k].label ])

\* the models registered under a label, in the order of their registration
RegisteredUnder(label) ==
    LET under == SelectSeq(registered, LAMBDA r : r.label = label)
    IN  Dedup([ k \in 1..Len(under) |-> under[k].model ])

\* the registered models label by label, from the i-th label on
RECURSIVE GroupedByLabel(_, _)
GroupedByLabel(key, i) ==
    IF i > Len(RegisteredLabels) THEN << >>
    ELSE Wanted(key, RegisteredUnder(RegisteredLabels[i]))
         \o GroupedByLabel(key, i + 1)

\* C12: without a module, get_models(only_installed=True) answers exactly
\* the models bound to the instances of loaded_apps that its flags let
\* through, each of them registered under the label of an instance, so a
\* registration under a label without an instance brings no model into the
\* answer; get_models(only_installed=False) answers every registered model
\* its flags let through, label by label in the order the labels were first
\* registered under.
C12_OnlyInstalled ==
    ( ret.op = "get_models" /\ ret.exc = "" /\ ret.key.app_mod = None )
    => IF ret.key.only_installed
       THEN /\ Range(ret.val) = { m \in BoundModels : LetThrough(ret.key, m) }
            /\ \A m \in Range(ret.val) :
                  \E i \in 1..Len(loaded_apps) :
                     [ label |-> Meta(W, i).label, model |-> m ] \in Range(registered)
            /\ Len(ret.val) = Cardinality(Range(ret.val))
       ELSE ret.val = GroupedByLabel(ret.key, 1)

\* get_models() answered Person of model_app alone while the models of
\* anothermodel_app, imported by hand, are registered under a label without
\* an instance (tests.py:253-258)
C12_Witness ==
    /\ ret.op = "get_models"
    /\ ret.exc = ""
    /\ ret.key = ModelsKey(None, FALSE, FALSE, TRUE)
    /\ ret.val = << Model("Person", <<"model_app", "models">>, FALSE) >>
    /\ DictHas(app_models, "anothermodel_app")
    /\ find_app(W, "anothermodel_app") = 0

\* the application a models module belongs to
OwnerOf(app_mod) == SubSeq(app_mod, 1, Len(app_mod) - 1)

\* C13: get_models handed a module answers, without raising, only models of
\* the application that module belongs to, and the empty list when that
\* application has no instance in loaded_apps.
C13_ModuleOnly ==
    ( ret.op \in { "get_models", "core.get_models" } /\ ret.key.app_mod # None )
    => /\ ret.exc = ""
       /\ \A m \in Range(ret.val) : OwnerOf(m.module) = OwnerOf(ret.key.app_mod)
       /\ find_app(W, Last(OwnerOf(ret.key.app_mod))) = 0 => ret.val = << >>

\* the models bound to the instance of a label whose name is model_name but
\* for the case of its letters
BoundAs(label, model_name) ==
    IF find_app(W, label) = 0 THEN { }
    ELSE { m \in Range(DictValues(Meta(W, find_app(W, label)).models)) :
              Lower(m.object_name) = Lower(model_name) }

\* what get_model(label, name) answered is the one model bound to the
\* instance of the label under that name, whatever the case of the letters,
\* and None when the label has no instance or the name is not bound
AnswersBound ==
    IF BoundAs(ret.label, ret.model_name) = { }
    THEN ret.val = None
    ELSE /\ ret.val # None
         /\ { ret.val[1] } = BoundAs(ret.label, ret.model_name)

\* C14 as stated: get_model(label, name) never raises; it answers the model
\* bound under that name whatever the case, None when the label has no
\* instance or the name is not bound; with seed_cache=False it leaves
\* app_cache_ready() as it was.
C14_NeverRaises ==
    ( ret.op = "get_model" /\ ret.key.only_installed )
    => /\ ret.exc = ""
       /\ AnswersBound
       /\ ~ret.flag => loaded = ret.was_loaded

\* C14, amended: get_model(label, name) raises only with seed_cache=True on
\* a cache that was not ready, where _populate runs and may raise; when it
\* returns, it answers the model bound to the instance of the label under
\* that name whatever the case of the letters, None when the label has no
\* instance or the name is not bound; with seed_cache=False it never
\* raises, does not populate and leaves app_cache_ready() and the rest of
\* the cache as they were.
C14_LookupBound ==
    /\ []( ( ret.op = "get_model" /\ ret.key.only_installed )
            => /\ ret.exc # "" => ret.flag /\ ~ret.was_loaded
               /\ ret.exc = "" => AnswersBound
               /\ ~ret.flag => loaded = ret.was_loaded )
    /\ [][ ( ret'.op = "get_model" /\ ~ret'.flag ) => UNCHANGED cache_vars ]_vars

\* get_model('model_app', 'PERSON') answered the model Person bound to the
\* instance of model_app
C14_Witness ==
    /\ ret.op = "get_model"
    /\ ret.key.only_installed
    /\ ret.exc = ""
    /\ ret.label = "model_app"
    /\ ret.model_name = "PERSON"
    /\ ret.val = << Model("Person", <<"model_app", "models">>, FALSE) >>

\* the models registered under a label whose name is model_name but for the
\* case of its letters
RegisteredAs(label, model_name) ==
    { r.model : r \in { e \in Range(registered) :
                           /\ e.label = label
                           /\ Lower(e.model.object_name) = Lower(model_name) } }

\* C15: on a cache with an empty configuration that _populate never ran on
\* and that has no instance, get_model(A, 'Foo', seed_cache=False) answers
\* the model Foo that register_models(A, Foo) registered.
C15_UnboundRegistration ==
    ( /\ ret.op = "get_model"
      /\ ~ret.flag
      /\ ret.key.only_installed
      /\ INSTALLED_APPS = << >>
      /\ ~loaded
      /\ loaded_apps = << >>
      /\ RegisteredAs(ret.label, ret.model_name) # { } )
    => /\ ret.exc = ""
       /\ ret.val # None
       /\ ret.val[1] \in RegisteredAs(ret.label, ret.model_name)

\* the signals of one name sent since the last reset, in their order
SentAs(signal) == SelectSeq(sent, LAMBDA e : e.sig = signal)

\* C16: the app_loaded signals sent are as many as the instances of
\* loaded_apps; the k-th of them carries the k-th instance and was sent
\* when that instance was the last of loaded_apps, that is right after it
\* was created and appended; a load_app that finds an instance sends none.
C16_AppLoadedOnce ==
    /\ Len(SentAs("app_loaded")) = Len(loaded_apps)
    /\ \A k \in 1..Len(SentAs("app_loaded")) :
          /\ SentAs("app_loaded")[k].arg = << k >>
          /\ SentAs("app_loaded")[k].apps = k

\* load_app was called for a name it had handled and found the one
\* instance: one app_loaded signal was sent for the two calls
C16_Witness ==
    /\ ret.op = "load_app"
    /\ ret.again
    /\ ret.exc = ""
    /\ Len(handled) = 2
    /\ Len(loaded_apps) = 1
    /\ Len(SentAs("app_loaded")) = 1

\* C17: since the last reset, post_apps_loaded was sent once if the cache
\* is ready and not at all if it is not, so neither by a _populate that
\* raised, nor by one called while a models module is imported, nor by one
\* called on a ready cache; it was sent after loaded was set, with all the
\* instances loaded_apps then had, in their order.
C17_PostAppsLoadedOnce ==
    /\ Len(SentAs("post_apps_loaded")) = IF loaded THEN 1 ELSE 0
    /\ \A k \in 1..Len(SentAs("post_apps_loaded")) :
          /\ SentAs("post_apps_loaded")[k].ready
          /\ SentAs("post_apps_loaded")[k].arg
               = [ i \in 1..SentAs("post_apps_loaded")[k].apps |-> i ]
    /\ ( ret.op = "_populate" /\ ret.exc # "" ) => ~loaded

\* _populate was called again on a cache made ready under a configuration
\* whose first models module calls _populate while it is imported: one
\* signal was sent, with the two instances
C17_Witness ==
    /\ INSTALLED_APPS = << Entry(<<"nested_app">>), Entry(<<"model_app">>) >>
    /\ ret.op = "_populate"
    /\ ret.was_loaded
    /\ loaded
    /\ Len(SentAs("post_apps_loaded")) = 1
    /\ SentAs("post_apps_loaded")[1].arg = << 1, 2 >>

\* the instance of the application the last call of load_app was for; 0
\* when there is none
LoadedInstance == find_app(W, Last(ret.name))

\* load_app was called for an application whose models module, the one
\* its models_path names, does not exist
MissingModels ==
    /\ ret.op = "load_app"
    /\ LoadedInstance # 0
    /\ Meta(W, LoadedInstance).models_path \notin ExistingModules

\* load_app was called for an application whose models module is a module
\* of its package and imports a module that does not exist
BrokenModels ==
    /\ ret.op = "load_app"
    /\ LoadedInstance # 0
    /\ Meta(W, LoadedInstance).models_path \in ExistingModules
    /\ Front(Meta(W, LoadedInstance).models_path) = Meta(W, LoadedInstance).name
    /\ StFail \in Range(ModuleBody(Meta(W, LoadedInstance).models_path))

\* C18: a call of load_app for an application whose models module cannot
\* be imported because the application has no such module leaves an
\* instance of it in loaded_apps, returns None without raising, leaves
\* postponed as it was and nesting_level as it was, whatever can_postpone
\* is.
C18_NoModelsModule ==
    [][ ( handled' # handled /\ MissingModels' )
        => /\ ret'.exc = ""
           /\ ret'.val = None
           /\ postponed' = postponed
           /\ nesting_level' = nesting_level ]_vars

\* C19: a call of load_app for an application that has its models module,
\* whose import raises ImportError: with can_postpone it appends the
\* identifier and its overrides to postponed, leaves nesting_level as it was
\* and returns None without raising; without can_postpone it raises that
\* ImportError.
C19_BrokenModelsModule ==
    [][ ( handled' # handled /\ BrokenModels' )
        => IF ret'.flag
           THEN /\ ret'.exc = ""
                /\ ret'.val = None
                /\ postponed' = Append(postponed, [ name |-> ret'.name,
                                                    kwargs |-> ret'.kwargs ])
                /\ nesting_level' = nesting_level
           ELSE /\ ret'.exc = "ImportError"
                /\ ret'.err = Error("No module named") ]_vars

\* C20: get_app_class answers, for an identifier of one segment, a class
\* made for it; for an identifier whose last segment is a module of the
\* module the segments before it name, a class made for the whole
\* identifier; for one whose last segment is no module but an attribute of
\* that module, the attribute when it is a subclass of App. It raises
\* ImproperlyConfigured when the module the segments before the last name
\* cannot be imported, when that module has no such attribute, and when
\* the attribute is not a subclass of App.
C20_ThreeWays ==
    ret.op = "get_app_class"
    => IF Len(ret.name) = 1 \/ ( Front(ret.name) \in ExistingModules
                                 /\ ret.name \in ExistingModules )
       THEN ret.exc = "" /\ ret.flag /\ ret.val = ret.name
       ELSE IF /\ Front(ret.name) \in ExistingModules
               /\ ret.name \in DOMAIN ClassDecl
               /\ ClassDecl[ret.name].is_app
       THEN ret.exc = "" /\ ~ret.flag /\ ret.val = ret.name
       ELSE ret.exc = "ImproperlyConfigured"

\* the option of a descriptor an override key names
OptionOf(meta, key) ==
    CASE key = "db_prefix" -> meta.db_prefix
      [] key = "models_path" -> meta.models_path
      [] OTHER -> meta.verbose_name

\* instance i shows the overrides: those of the three options on its
\* descriptor and not among its own attributes, the others among its own
\* attributes
Overridden(i, kwargs) ==
    \A n \in 1..Len(kwargs) :
        IF kwargs[n].key \in { "verbose_name", "db_prefix", "models_path" }
        THEN /\ OptionOf(Meta(W, i), kwargs[n].key) = kwargs[n].val
             /\ ~DictHas(loaded_apps[i].attrs, kwargs[n].key)
        ELSE /\ DictHas(loaded_apps[i].attrs, kwargs[n].key)
             /\ DictGet(loaded_apps[i].attrs, kwargs[n].key, None) = kwargs[n].val

\* the k-th entry of INSTALLED_APPS has an instance that shows its overrides
EntryOverridden(k) ==
    \E i \in 1..Len(loaded_apps) :
        /\ Meta(W, i).name = ApplicationOf(INSTALLED_APPS[k].name)
        /\ Overridden(i, INSTALLED_APPS[k].kwargs)

\* a population of a cache without instances returned
PopulatedFromNothing ==
    /\ \/ ret.op = "_populate" /\ ret.first
       \/ ret.op = "_reload"
    /\ ret.exc = ""
    /\ loaded

C22_SecondIgnored ==
    [][ ( /\ ret'.op = "register_models"
          /\ ret' # ret
          /\ DictHas(DictGet(app_models, ret'.label, << >>), Lower(ret'.model_name)) )
        => /\ ret'.exc = ""
           /\ app_models' = app_models
           /\ loaded_apps' = loaded_apps
           /\ class_meta' = class_meta ]_vars

\* C23: a _populate called from outside that returns without raising
\* leaves loaded true, whatever calls came before it since the last reset.
C23_ReturnsReady ==
    ( ret.op = "_populate" /\ ret.exc = "" ) => loaded

\* C24: between the calls made from outside no load_app is in progress and
\* nesting_level is 0; in particular a load_app called from outside leaves
\* nesting_level as it found it, whether it returns a module, returns None
\* or raises.
C24_Balanced ==
    /\ nesting_level = 0
    /\ ret.op = "load_app" => nesting_level = ret.nesting_level

\* C25: while loaded is true, every model registered in the index under
\* the label of an instance of loaded_apps is among the bound models of
\* that instance.
C25_RegisteredIsBound ==
    loaded
    => \A i \in 1..Len(loaded_apps) :
          Range(DictValues(DictGet(app_models, Meta(W, i).label, << >>)))
            \subseteq Range(DictValues(Meta(W, i).models))


-----------------------------------------------------------------------------
(* The cache of django.core.apps: its bound models are a list *)

\* INSTALLED_APPS of core/apps.py holds names only (core/apps.py:154-157)
CoreConfigurations ==
    { << >>,
      << Entry(<<"model_app">>) >>,
      << Entry(<<"model_app">>), Entry(<<"anothermodel_app">>) >> }

InitCore == InitWith(CoreConfigurations)

\* core/apps.py:139  _populate()
CorePopulate ==
    /\ Len(handled) < HandledCap
    /\ Returns("_populate", None, "", FALSE,
               core_populate(W))
    /\ UNCHANGED << INSTALLED_APPS, thread_vars >>

\* the import of a models module, its models registered at core/apps.py:384
CoreImportModels(m) ==
    /\ sys_modules[m].state = "absent"
    /\ Len(handled) < HandledCap
    /\ Returns("import", None, "", FALSE,
               import_module([ W EXCEPT !.core = TRUE ], m))
    /\ UNCHANGED << INSTALLED_APPS, thread_vars >>

\* core/apps.py:384  register_models(app_label, model), the module of the
\* model imported
CoreRegisterAgain(app_label, model) ==
    /\ sys_modules[model.module].state = "imported"
    /\ Len(registered) < MaxRegistered
    /\ ReturnsFor("register_models", app_label, FALSE, NoCall.key, model.object_name,
                  core_register_models([ W EXCEPT !.core = TRUE ], app_label, model))
    /\ UNCHANGED << INSTALLED_APPS, thread_vars >>

NextCore ==
    \/ CorePopulate
    \/ \E m \in HandImports : CoreImportModels(m)
    \/ \E l \in HandLabels, m \in SameNameModels : CoreRegisterAgain(l, m)

SpecCore == InitCore /\ [][NextCore]_vars

\* the names, lower-cased, of the models bound to the i-th instance
BoundNames(i) ==
    [ n \in 1..Len(Meta(W, i).models) |-> Lower(Meta(W, i).models[n].val.object_name) ]

\* C26: in the bound models of every instance no case-insensitive model name
\* occurs twice and no model is bound twice, whatever register_models,
\* load_app and _populate calls were made
C26_BoundOnce ==
    \A i \in 1..Len(loaded_apps) :
       \A a, b \in 1..Len(Meta(W, i).models) :
          a # b => /\ BoundNames(i)[a] # BoundNames(i)[b]
                   /\ Meta(W, i).models[a].val # Meta(W, i).models[b].val


-----------------------------------------------------------------------------
(* get_models called while the cache is populated *)

MemoConfigurations ==
    { << Entry(<<"model_app">>), Entry(<<"memo_app">>) >>,
      << Entry(<<"memo_app">>), Entry(<<"model_app">>) >>,
      << Entry(<<"memo_app">>) >> }

InitMemo == InitWith(MemoConfigurations)

NextMemo ==
    \/ Populate
    \/ \E m \in HandImports : ImportModels(m)
    \/ \E k \in ModelsKeys : GetModels(k)
    \/ \E a \in BindArguments : LoadApp(a, FALSE)

SpecMemo == InitMemo /\ [][NextMemo]_vars

\* entry e of the memo holds what get_models computes from w for its key
Transparent(w, e) ==
    w.exc = "" => e.val = ComputeModels(w, e.key)

\* C27: whatever the memo of get_models holds for a key is the list the
\* method computes for that key from the current state, without the memo
\* (cache.py:290: after its call of _populate)
C27_MemoTransparent ==
    \A e \in get_models_cache : Transparent(populate(W), e)


-----------------------------------------------------------------------------
(* Threads that call load_app, register_models and _reset while another    *)
(* thread populates the cache.  None of the three takes write_lock         *)
(* (cache.py:153-206, 329-351, 48-59); each call is one step here.         *)

RaceConfigurations ==
    { << Entry(<<"model_app">>) >>,
      << Entry(<<"model_app">>), Entry(<<"nomodel_app">>) >> }

InitRace == InitWith(RaceConfigurations)

\* the call thread t makes instead of _populate has ended in w
DirectCall(t, w) ==
    /\ Becomes(w)
    /\ At(t, "return")
    /\ UNCHANGED << INSTALLED_APPS, ret, write_lock, cursor, finalized, observed >>

\* cache.py:153  load_app(app_name) called by thread t
DirectLoadApp(t, app_name) ==
    /\ pc[t] = "start"
    /\ DirectCall(t, load_app(W, app_name, << >>, FALSE))

\* cache.py:329  register_models(app_label, model) called by thread t, the
\* module of the model imported
DirectRegisterModels(t, app_label, model) ==
    /\ pc[t] = "start"
    /\ sys_modules[model.module].state = "imported"
    /\ DirectCall(t, register_models(W, app_label, model))

\* cache.py:48  _reset() called by thread t
DirectReset(t) ==
    /\ pc[t] = "start"
    /\ DirectCall(t, reset([ W EXCEPT !.sent = << >>, !.registered = << >> ]))

NextRace ==
    \/ \E t \in Threads : ThreadStep(t)
    \/ \E t \in Threads, a \in BindArguments : DirectLoadApp(t, a)
    \/ \E t \in Threads, m \in SameNameModels : DirectRegisterModels(t, "model_app", m)
    \/ \E t \in Threads : DirectReset(t)

SpecRace == InitRace /\ [][NextRace]_vars

\* the state of the cache that the threads share
SharedState == << loaded_apps, app_models, handled, postponed, nesting_level, loaded >>

\* the step is one of thread t
Moved(t) == pc'[t] # pc[t] \/ cursor'[t] # cursor[t]

\* C28: while a thread is inside _populate with write_lock, a step that
\* writes loaded_apps, app_models, handled, postponed, nesting_level or
\* loaded is a step of the thread that holds write_lock
C28_WritesUnderLock ==
    [][ \A t \in Threads :
           ( Moved(t) /\ write_lock.owner # 0 /\ SharedState' # SharedState )
           => write_lock.owner = t ]_vars


-----------------------------------------------------------------------------
(* _populate called by a models module that load_app imports *)

NestedArguments == { <<"nested_app">>, <<"model_app">> }

InitNested ==
    InitWith({ << Entry(<<"nested_app">>), Entry(<<"model_app">>) >>,
               << Entry(<<"model_app">>), Entry(<<"nested_app">>) >>,
               << Entry(<<"model_app">>) >> })

NextNested ==
    \/ Populate
    \/ \E a \in NestedArguments : LoadApp(a, FALSE)
    \/ GetApps
    \/ \E k \in ModelsKeys : GetModels(k)

SpecNested == InitNested /\ [][NextNested]_vars

\* C29: a step that sets loaded is not a load_app call, and it ends with the
\* post_apps_loaded signal of a _populate that found nesting_level 0 and
\* held write_lock once: a _populate called while load_app imports a models
\* module takes the lock a second time and returns without finalization
C29_OutermostFinalizes ==
    [][ (loaded' /\ ~loaded)
        => /\ ret'.op # "load_app"
           /\ sent' # << >>
           /\ Last(sent').sig = "post_apps_loaded"
           /\ Last(sent').level = 0
           /\ Last(sent').held = 1 ]_vars

\* the cache is ready after a _populate during which a nested _populate,
\* holding write_lock twice, loaded an application
C29_Witness ==
    /\ loaded
    /\ ret.op = "_populate"
    /\ \E n \in 1..Len(sent) : sent[n].sig = "app_loaded" /\ sent[n].held = 2


-----------------------------------------------------------------------------
(* The applications postponed in the loop of _populate *)

RetryConfigurations ==
    { << Entry(<<"model_app">>) >>,
      \* models modules that import each other: app_a is postponed
      << Entry(<<"app_a">>), Entry(<<"app_b">>) >>,
      \* a models module that cannot be imported
      << Entry(<<"model_app">>), Entry(<<"broken_app">>) >>,
      \* the same, with two applications of one db_prefix (tests.py:188)
      << Entry(<<"nomodel_app", "app", "MyApp">>),
         Entry(<<"model_app", "app", "MyOtherApp">>), Entry(<<"broken_app">>) >> }

InitRetry == InitWith(RetryConfigurations)

RetryArguments == { <<"model_app">>, <<"broken_app">> }

NextRetry ==
    \/ Populate
    \/ \E m \in HandImports : ImportModels(m)
    \/ \E a \in RetryArguments, p \in BOOLEAN : LoadApp(a, p)

SpecRetry == InitRetry /\ [][NextRetry]_vars

\* the n-th postponed identifier of w was loaded again once every entry of
\* INSTALLED_APPS had been handled
Reattempted(w, n) ==
    \E i, j \in 1..Len(w.handled) :
       /\ i < j
       /\ w.handled[i] = w.postponed[n].name
       /\ w.handled[j] = w.postponed[n].name
       /\ \A e \in 1..Len(w.INSTALLED_APPS) :
             \E k \in 1..(j - 1) : w.handled[k] = w.INSTALLED_APPS[e].name

\* the models module of the n-th postponed identifier of w is not imported
StillMissing(w, n) ==
    LET app == find_app(w, Last(w.postponed[n].name))
    IN  /\ app # 0
        /\ Meta(w, app).models_path \in ModelsModules
        /\ w.sys_modules[Meta(w, app).models_path].state = "absent"

\* the models bound to the i-th instance of w
BoundTo(w, i) ==
    IF i \in 1..Len(w.loaded_apps) THEN Range(DictValues(Meta(w, i).models)) ELSE {}

\* in w1, the state a call ends in, no model that was registered in w is
\* bound to an instance it was not bound to in w
NothingBound(w, w1) ==
    \A i \in 1..Len(w1.loaded_apps) :
       BoundTo(w1, i)
         \cap Range(DictValues(DictGet(w.app_models, Meta(w1, i).label, << >>)))
       \subseteq BoundTo(w, i)

\* what an outermost _populate that began in w has done when it ends in w1
RetriedFirst(w, w1, exc, err) ==
    /\ exc = "" => /\ w1.loaded
                   /\ \A n \in 1..Len(w1.postponed) :
                         Reattempted(w1, n) /\ ~StillMissing(w1, n)
    /\ (\E n \in 1..Len(w1.postponed) : StillMissing(w1, n))
       => /\ exc = "ImportError"
          /\ err.what # "have the same db_prefix"
          /\ ~w1.loaded
          /\ NothingBound(w, w1)

\* C30: a _populate that runs at nesting level 0 on a cache not yet loaded
\* loads every postponed identifier again after the pass over INSTALLED_APPS;
\* when the models module of one of them still cannot be imported, the
\* ImportError leaves _populate before any model is bound and before the
\* db_prefix values are compared, and loaded stays false
C30_PostponedRetried ==
    [][ (ret'.op = "_populate" /\ ~loaded /\ nesting_level = 0)
        => RetriedFirst(W, W', ret'.exc, ret'.err) ]_vars

\* _populate has ended in an ImportError of a postponed application whose
\* models module is still missing, while a model registered before the call
\* waits to be bound
C30_Witness ==
    /\ ret.op = "_populate"
    /\ ret.exc = "ImportError"
    /\ ~loaded
    /\ \E n \in 1..Len(postponed) : StillMissing(W, n)
    /\ \E i \in 1..Len(loaded_apps) :
          ~(Range(DictValues(DictGet(app_models, Meta(W, i).label, << >>)))
              \subseteq BoundTo(W, i))


-----------------------------------------------------------------------------
(* The second load_app of a postponed identifier *)

ReuseConfigurations ==
    { \* models modules that import each other: app_a is postponed
      << Entry(<<"app_a">>), Entry(<<"app_b">>) >>,
      \* the same, app_a.models being the models module of an App class
      << EntryWith(<<"model_app", "app", "MyApp">>, "models_path", <<"app_a", "models">>),
         Entry(<<"app_b">>) >>,
      << Entry(<<"model_app">>), Entry(<<"broken_app">>) >> }

InitReuse == InitWith(ReuseConfigurations)

NextReuse ==
    \/ Populate
    \/ GetApps
    \/ \E m \in HandImports : ImportModels(m)

SpecReuse == InitReuse /\ [][NextReuse]_vars

\* the instances made for an identifier: of the class it names, or of the
\* class made from it
CreatedFrom(app_name) ==
    { i \in 1..Len(loaded_apps) : loaded_apps[i].cls = app_name }

\* C31: a postponed identifier, loaded again, has the one instance of its
\* first load_app and the one app_loaded signal of that instance, and the
\* db_prefix validation never fails on two instances of one postponed
\* identifier
C31_RetryReuses ==
    \A n \in 1..Len(postponed) :
       /\ Cardinality(CreatedFrom(postponed[n].name)) <= 1
       /\ Len(SelectSeq(SentAs("app_loaded"),
                        LAMBDA e : e.arg[1] \in CreatedFrom(postponed[n].name))) <= 1
       /\ ret.err.what = "have the same db_prefix"
          => ~({ ret.err.app1, ret.err.app2 } \subseteq CreatedFrom(postponed[n].name))


-----------------------------------------------------------------------------
(* _populate called while receivers that raise are connected to signals *)

Signals == { "app_loaded", "post_apps_loaded" }

SignalConfigurations ==
    { << Entry(<<"model_app">>) >>,
      \* tests.py:481  no such module
      << Entry(<<"garageland">>) >>,
      \* a models module that cannot be imported
      << Entry(<<"model_app">>), Entry(<<"broken_app">>) >>,
      \* tests.py:188  two applications with the db_prefix 'nomodel_app'
      << Entry(<<"nomodel_app", "app", "MyApp">>),
         Entry(<<"model_app", "app", "MyOtherApp">>) >> }

InitSignals == InitWith(SignalConfigurations)

\* cache.py:68  _populate(), the receivers of the signals of raising raise
PopulateRaising(raising) ==
    /\ Len(handled) < HandledCap
    /\ Returns("_populate", None, "", FALSE,
               populate([ W EXCEPT !.raising = raising ]))
    /\ UNCHANGED << INSTALLED_APPS, thread_vars >>

NextSignals ==
    \/ \E r \in SUBSET Signals : PopulateRaising(r)
    \/ \E m \in HandImports : ImportModels(m)
    \/ Reset

SpecSignals == InitSignals /\ [][NextSignals]_vars

\* C32: when _populate has raised, whatever raised, loaded is false
C32_RaisedUnloaded ==
    (ret.op = "_populate" /\ ret.exc # "") => ~loaded


-----------------------------------------------------------------------------
(* _populate called by several threads under configurations it fails on *)

SpecRelease ==
    /\ InitSignals
    /\ [][NextThreads]_vars
    /\ \A t \in Threads : WF_<< pc, cursor >>(Advances(t))

\* C33: a thread that has left _populate, by a return or by an exception,
\* does not hold write_lock, which it did not hold before its call; and
\* every thread gets to the end of its call, none waits for the lock for ever
C33_LockReleased ==
    /\ [](\A t \in Threads : pc[t] \in { "return", "done" } => write_lock.owner # t)
    /\ \A t \in Threads : <>(pc[t] = "done")

\* all threads have left _populate, one of them by an exception that left
\* the cache not loaded, and the lock is free
C33_Witness ==
    /\ \A t \in Threads : pc[t] = "done"
    /\ ~loaded
    /\ handled # << >>
    /\ write_lock = [ owner |-> 0, count |-> 0 ]


\* C34: the _populate of a thread that finds loaded true goes from its
\* start to its return: it does not take write_lock, and neither that step
\* nor its return changes loaded_apps, app_models, handled, postponed,
\* nesting_level, loaded, the memo of get_models or the signals sent
C34_LoadedReturns ==
    [][ \A t \in Threads :
           ( Moved(t) /\ ((pc[t] = "start" /\ loaded) \/ pc[t] = "return") )
           => /\ pc[t] = "start" => pc'[t] = "return"
              /\ UNCHANGED << cache_vars, write_lock, finalized >> ]_vars

\* a thread has returned from _populate on the loaded cache another thread
\* finalized; the lock is free
C34_Witness ==
    \E t, u \in Threads :
       /\ t # u
       /\ pc[t] = "done"
       /\ finalized = << u >>
       /\ observed[t] # << >>
       /\ loaded
       /\ write_lock.owner = 0


\* C35: while loaded is true, every identifier of INSTALLED_APPS is in
\* handled and loaded_apps holds an instance of the application it names;
\* _reset called by a thread while another is inside _populate does not
\* change that
C35_ReadyIsComplete ==
    loaded
    => \A k \in 1..Len(INSTALLED_APPS) :
          /\ INSTALLED_APPS[k].name \in Range(handled)
          /\ InstancesOf(W, ApplicationOf(INSTALLED_APPS[k].name)) # {}


\* _populate has returned from the finalization it made
Finalized ==
    ret.op = "_populate" /\ ret.exc = "" /\ loaded /\ ~ret.was_loaded

\* C36 as stated: after the finalization of a successful _populate the
\* tier of the index that holds the models by label is empty
C36_UnboundEmpty ==
    Finalized => app_models = << >>

\* C36, amended: after the finalization of a successful _populate every
\* model the index holds under the label of an instance is among the bound
\* models of that instance, and the index still holds every model that was
\* registered
C36_BoundAndKept ==
    Finalized
    => /\ \A i \in 1..Len(loaded_apps) :
             Range(DictValues(DictGet(app_models, Meta(W, i).label, << >>)))
               \subseteq BoundTo(W, i)
       /\ \A n \in 1..Len(registered) :
             DictHas(DictGet(app_models, registered[n].label, << >>),
                     Lower(registered[n].model.object_name))

\* the finalization has bound a model that was registered, by the import of
\* its module, before _populate made the instance of its label
C36_Witness ==
    /\ Finalized
    /\ ret.first = FALSE
    /\ \E i \in 1..Len(loaded_apps) : BoundTo(W, i) # {}
    /\ Len(SentAs("app_loaded")) = Len(loaded_apps)
    /\ \A n \in 1..Len(sent) : sent[n].sig = "app_loaded" => sent[n].held = 1
    /\ app_models # << >>


\* in w an instance carries the label and has a model of the name among its
\* bound models
BoundUnder(w, label, model_name) ==
    \E i \in 1..Len(w.loaded_apps) :
       /\ Meta(w, i).label = label
       /\ DictHas(Meta(w, i).models, Lower(model_name))

\* what a register_models that stored a model under label has done between
\* w and w1
StoredOrBound(w, w1, label, model_name) ==
    /\ ~w.loaded
       => /\ DictHas(DictGet(w1.app_models, label, << >>), Lower(model_name))
          /\ \A i \in 1..Len(w.loaded_apps) : Meta(w1, i).models = Meta(w, i).models
    /\ w.loaded => BoundUnder(w1, label, model_name)

\* C37: register_models(label, m) stores m in the index alone, under label,
\* while the cache is not ready; once it is ready, m is afterwards among the
\* bound models of an instance with that label, one made for it if there
\* was none
C37_StoresThenBinds ==
    [][ (ret'.op = "register_models" /\ ret'.exc = "" /\ registered' # registered)
        => StoredOrBound(W, W', ret'.label, ret'.model_name) ]_vars


\* the signals among those from the n-th on of a log that announce a pass of
\* _populate (core/apps.py:23 pre_init)
PreLoadFrom(log, n) ==
    { k \in n..Len(log) : log[k].sig = "pre_init" }

\* C38: a _populate that finds the cache not loaded sends one signal that
\* announces the pass, before any other signal of the pass
C38_PreLoadOnce ==
    [][ (ret'.op = "_populate" /\ ~loaded)
        => PreLoadFrom(sent', Len(sent) + 1) = { Len(sent) + 1 } ]_vars

-----------------------------------------------------------------------------
(* _reset and the shared state *)

\* the fields of the shared state that _initialize returns
InitialFields ==
    [ loaded_apps |-> loaded_apps, app_models |-> app_models, loaded |-> loaded,
      handled |-> handled, postponed |-> postponed,
      nesting_level |-> nesting_level, get_models_cache |-> get_models_cache ]

\* C39: a step in which _reset returns leaves loaded false, loaded_apps,
\* handled and postponed empty, the model index and the get_models memo
\* empty and nesting_level 0, and leaves write_lock as it was
C39_ResetRestores ==
    [][ ret'.op = "_reset"
        => /\ ~loaded'
           /\ loaded_apps' = << >> /\ handled' = << >> /\ postponed' = << >>
           /\ app_models' = << >> /\ get_models_cache' = {}
           /\ nesting_level' = 0
           /\ InitialFields' = initialize
           /\ write_lock' = write_lock ]_vars

\* _reset has returned on a cache that was populated
C39_Witness ==
    ret.op = "_reset" /\ ret.was_loaded /\ ~loaded /\ handled = << >>

-----------------------------------------------------------------------------
(* The descriptor of App subclasses that inherit from each other *)

\* tests.py:404-440 and model_app/app.py: load_app on the path of a class,
\* without options
InheritArguments == DeclaredApps

InitInherit == InitWith({ << >> })

NextInherit ==
    \/ Populate
    \/ \E app_name \in InheritArguments : LoadApp(app_name, FALSE)

SpecInherit == InitInherit /\ [][NextInherit]_vars

\* the classes along the inheritance chain of c whose body declares a Meta
DeclaringMeta(c) == SelectSeq(Mro(c), LAMBDA b : ClassDecl[b].has_meta)

\* options.py:25-29  the defaults of the descriptor of class c
DerivedDefault(c, attr) ==
    CASE attr = "db_prefix" -> << Last(DeclaredAppName(c)) >>
      [] attr = "models_path" -> Append(DeclaredAppName(c), "models")
      [] attr = "verbose_name" -> get_verbose_name(Last(DeclaredAppName(c)))

\* what the nearest Meta along the chain of c gives for attr, its own
\* attributes and those of the Metas it inherits from, the default otherwise
NearestMetaValue(c, attr) ==
    IF DeclaringMeta(c) # << >> /\ MetaHasAttr(Head(DeclaringMeta(c)), attr)
    THEN MetaGetAttr(Head(DeclaringMeta(c)), attr)
    ELSE DerivedDefault(c, attr)

\* C40: the verbose_name, db_prefix and models_path of every instance of a
\* declared App subclass are those of the nearest class Meta along the
\* inheritance chain of the class, classes that declare no Meta passed over,
\* and the derived defaults where no Meta of the chain defines them
C40_NearestMeta ==
    \A i \in 1..Len(loaded_apps) :
       loaded_apps[i].cls \in DeclaredApps
       => \A k \in 1..Len(DEFAULT_NAMES) :
             Meta(W, i)[DEFAULT_NAMES[k]]
                = NearestMetaValue(loaded_apps[i].cls, DEFAULT_NAMES[k])


=============================================================================
